---- MODULE Spec2Model ----
(***************************************************************************)
(* Collection & synchronization engine of the Feishu Bitable TikTok        *)
(* plugin: the keyword / account pagination loop (App.tsx,                 *)
(* writeKeywordTikTokData / writeAccountTikTokData), the write-back        *)
(* scheduler (services/bitableApi.ts, addRecordsInBatches and              *)
(* fillEmptyRecords), the quota hook (hooks/useQuota.ts) and the stop      *)
(* handlers of the four run kinds.                                         *)
(*                                                                         *)
(* JavaScript is single threaded: a handler runs without interruption      *)
(* from one `await` to the next.  A state of the model is therefore a      *)
(* point where every handler is suspended in an await (or idle), and one   *)
(* action is the resumption of one await (or one UI event) together with   *)
(* all the synchronous code that follows it up to the next await.          *)
(*                                                                         *)
(* Row ids: rows that exist before the run have positive ids, rows         *)
(* created by addRecords / addRecord get the ids -1, -2, ...; 0 stands     *)
(* for the empty string '' that recordIdsByIndex is filled with.           *)
(* Dedup keys are 1..NumKeys; 0 stands for the empty key ''.               *)
(***************************************************************************)
EXTENDS Integers, Sequences, FiniteSets, TLC

\* ------------------------------------------------------------------ bounds
NumFields == 2          \* fields of one projected record
NumKeys == 2            \* distinct share links the source can deliver
MaxItems == 2           \* items of one source page
MaxRecords == 3         \* records handed to a stand-alone persist call
MaxSlots == 2           \* empty rows the pre-scan can find
MaxSourcePages == 2     \* responses with has_more = true the source gives
MaxRows == 2            \* rows the datastore holds before the run
ScanPageSize == 1       \* rows of one getRecords page (200 in the code)
MaxQuota == 1           \* largest remaining quota known at run start
SmallBatch == 2         \* a batchSize option smaller than the default
MaxFetches == 2         \* source requests one run makes when the runs go side by side

\* ------------------------------------------------------- program constants
defaultBatchSize == 50  \* bitableApi.ts: const { batchSize = 50, ... }
maxPages == 100         \* App.tsx: const maxPages = 100
coverMaxAttempts == 3   \* App.tsx fetchCoverFile: const maxAttempts = 3
coverBaseDelayMs == 400 \* App.tsx fetchCoverFile: const baseDelayMs = 400
transcriptMaxAttempts == 2     \* App.tsx fetchAudioTranscript: const maxAttempts = 2
transcriptBaseDelayMs == 1200  \* App.tsx fetchAudioTranscript: const baseDelayMs = 1200
MaxEndpoints == 2       \* App.tsx getAudioEndpoints: [fallbackUrl, directUrl]
keysMaxScan == 5000     \* collectExistingKeys(..., { maxScan: 5000 })
emptyMaxScan == 500     \* getEmptyRecords(..., { maxScan: 500 })

Kinds == {"keyword", "account", "accountInfo", "audio"}
PagedKinds == {"keyword", "account"}

Min(a, b) == IF a < b THEN a ELSE b
Max(a, b) == IF a > b THEN a ELSE b

VARIABLES
    run,             \* locals of the keyword / account run
    p,               \* frame of the running addRecordsInBatches call
    emptyRecordIds,  \* the run's pool of empty row ids (mutated by splice)
    shouldStopRef,   \* the four stop flags (useRef(false))
    quotaInfo,       \* useQuota state: remaining (-1 = null) and status
    hasAddRecords,   \* does the table expose the batch interface addRecords
    preRows,         \* datastore: the rows that exist before the run
    cells,           \* datastore: cell writes <<rowId, payload, fieldNo>>
    writeLog,        \* datastore: fully written records, in commit order
    nextRowId,       \* datastore: number of rows created so far
    srcLeft,         \* source: responses with has_more = true still to come
    hist,            \* history of the run (what was requested, what was issued)
    runs             \* the four run kinds side by side: where each one stands

vars == <<run, p, emptyRecordIds, shouldStopRef, quotaInfo, hasAddRecords,
          preRows, cells, writeLog, nextRowId, srcLeft, hist, runs>>

\* ---------------------------------------------------------------------
\* WriteScheduler: addRecordsInBatches / fillEmptyRecords
\* ---------------------------------------------------------------------

IdleFrame ==
    [pc |-> "idle", records |-> <<>>, batchSize |-> defaultBatchSize,
     remaining |-> <<>>, idsToUse |-> <<>>, fillPos |-> 0, nextRecord |-> 0,
     fieldPos |-> 0, filledCount |-> 0, appendedCount |-> 0,
     filledRecordIds |-> <<>>, recordIdsByIndex |-> <<>>,
     chunks |-> <<>>, chunkPos |-> 0, recPos |-> 0,
     requeued |-> {}]       \* (history) the records the catch block put back

RECURSIVE Chunks(_, _)
\* for (i = 0; i < remainingRecords.length; i += batchSize) chunks.push(slice)
Chunks(s, n) ==
    IF s = <<>> THEN <<>>
    ELSE <<SubSeq(s, 1, Min(n, Len(s)))>>
         \o Chunks(SubSeq(s, Min(n, Len(s)) + 1, Len(s)), n)

\* the merge storing the k-th filled id at position k instead of at its index
MergeFilledByPosition(ids, filled) ==
    [i \in 1..Len(ids) |-> IF i <= Len(filled) THEN filled[i][2] ELSE ids[i]]

\* result.filledRecordIds.forEach(({index, recordId}) => ids[index] = recordId)
MergeFilled(ids, filled) ==
    [i \in 1..Len(ids) |->
        IF \E j \in 1..Len(filled) : filled[j][1] = i
        THEN LET j == CHOOSE j \in 1..Len(filled) :
                        /\ filled[j][1] = i
                        /\ \A j2 \in 1..Len(filled) : filled[j2][1] = i => j2 <= j
             IN filled[j][2]
        ELSE ids[i]]

\* return { filledCount, appendedCount, recordIds: recordIdsByIndex }
Returned(f) == [f EXCEPT !.pc = "returned"]

\* the chunk loop without its stop check
ChunkLoopHeadNoStopCheck(f, stop, batch) ==
    IF f.chunkPos > Len(f.chunks) THEN Returned(f)
    ELSE IF batch THEN [f EXCEPT !.pc = "addRecords"]
    ELSE [f EXCEPT !.pc = "addRecord", !.recPos = 1]

\* for (const chunk of chunks) { if (stopRef?.current) break; ... }
ChunkLoopHead(f, stop, batch) ==
    IF f.chunkPos > Len(f.chunks) \/ stop THEN Returned(f)
    ELSE IF batch THEN [f EXCEPT !.pc = "addRecords"]
    ELSE [f EXCEPT !.pc = "addRecord", !.recPos = 1]

\* phase two: if (remainingRecords.length > 0 && (!stopRef || !stopRef.current))
StartAppend(f, stop, batch) ==
    IF f.remaining # <<>> /\ ~stop
    THEN ChunkLoopHead([f EXCEPT !.chunks = Chunks(f.remaining, f.batchSize),
                                 !.chunkPos = 1], stop, batch)
    ELSE Returned(f)

\* fillEmptyRecords returns; addRecordsInBatches copies its result
FillReturn(f, stop, batch) ==
    StartAppend([f EXCEPT !.recordIdsByIndex =
                              MergeFilled(f.recordIdsByIndex, f.filledRecordIds)],
                stop, batch)

\* for (const recordId of emptyRecordIds) { if (stopRef.current) break;
\*   const nextRecord = remaining.shift(); if (!nextRecord) break; ... }
\* A record has at least one field and the flag was just read as false, so the
\* field loop reaches its first setCellValue.
FillLoopHead(f, stop, batch) ==
    IF f.fillPos > Len(f.idsToUse) \/ stop \/ f.remaining = <<>>
    THEN FillReturn(f, stop, batch)
    ELSE [f EXCEPT !.pc = "setCell", !.nextRecord = Head(f.remaining),
                   !.remaining = Tail(f.remaining), !.fieldPos = 0]

\* the field loop leaves without an exception: the record counts as filled
CountFilled(f) ==
    [f EXCEPT !.filledCount = @ + 1,
              !.filledRecordIds = Append(@, <<f.nextRecord, f.idsToUse[f.fillPos]>>),
              !.fillPos = @ + 1, !.nextRecord = 0]

\* the catch block putting the record back at the front (remaining.unshift)
RequeueAtFront(f) ==
    [f EXCEPT !.remaining = <<f.nextRecord>> \o @,
              !.requeued = @ \cup {f.nextRecord},
              !.fillPos = @ + 1, !.nextRecord = 0]

\* catch (error) { remaining.push(nextRecord) }
Requeue(f) ==
    [f EXCEPT !.remaining = Append(@, f.nextRecord),
              !.requeued = @ \cup {f.nextRecord},
              !.fillPos = @ + 1, !.nextRecord = 0]

\* resumption of `await table.setCellValue(...)` inside fillEmptyRecords
AfterSetCell(f, ok, stop, batch) ==
    IF ~ok THEN FillLoopHead(Requeue(f), stop, batch)
    ELSE LET g == [f EXCEPT !.fieldPos = @ + 1] IN
         IF g.fieldPos < NumFields /\ ~stop
         THEN g                                   \* next field's setCellValue
         ELSE FillLoopHead(CountFilled(g), stop, batch)

\* addRecords' resumption counting one record per chunk (appendedCount++)
AfterAddRecordsCountOne(f, ids, stop, batch) ==
    LET chunk == f.chunks[f.chunkPos] IN
    ChunkLoopHead(
        [f EXCEPT !.recordIdsByIndex =
                      [i \in 1..Len(@) |->
                          IF \E j \in 1..Len(chunk) : chunk[j] = i /\ j <= Len(ids)
                                                      /\ ids[j] # 0
                          THEN ids[CHOOSE j \in 1..Len(chunk) : chunk[j] = i]
                          ELSE @[i]],
                  !.appendedCount = @ + 1,
                  !.chunkPos = @ + 1], stop, batch)

\* resumption of `await tableWithBatch.addRecords(payload)`; ids[idx] is the
\* id of chunk[idx]
AfterAddRecords(f, ids, stop, batch) ==
    LET chunk == f.chunks[f.chunkPos] IN
    ChunkLoopHead(
        [f EXCEPT !.recordIdsByIndex =
                      [i \in 1..Len(@) |->
                          IF \E j \in 1..Len(chunk) : chunk[j] = i /\ j <= Len(ids)
                                                      /\ ids[j] # 0
                          THEN ids[CHOOSE j \in 1..Len(chunk) : chunk[j] = i]
                          ELSE @[i]],
                  !.appendedCount = @ + Len(chunk),
                  !.chunkPos = @ + 1], stop, batch)

\* resumption of `await table.addRecord(...)` in the one-by-one fallback
AfterAddRecord(f, id, stop, batch) ==
    LET chunk == f.chunks[f.chunkPos]
        g == [f EXCEPT !.recordIdsByIndex[chunk[f.recPos]] = id,
                       !.recPos = @ + 1] IN
    IF g.recPos <= Len(chunk) THEN g
    ELSE ChunkLoopHead([g EXCEPT !.appendedCount = @ + Len(chunk),
                                 !.chunkPos = @ + 1, !.recPos = 0], stop, batch)

\* the ids the call takes out of the pool: emptyRecordIds.splice(0, n)
IdsToUse(pool, records) == SubSeq(pool, 1, Min(Len(pool), Len(records)))
\* the pool left untouched by the call (slice in place of splice)
PoolAfterKept(pool, records) == pool

\* what emptyRecordIds.splice(0, remainingRecords.length) leaves in the pool
PoolAfter(pool, records) ==
    SubSeq(pool, Min(Len(pool), Len(records)) + 1, Len(pool))

\* addRecordsInBatches up to its first await (every caller that passes a pool
\* passes a stopRef too)
AddRecordsInBatches(records, pool, size, stop, batch) ==
    LET f == [IdleFrame EXCEPT
                !.records = records, !.batchSize = size,
                !.remaining = [i \in 1..Len(records) |-> i],
                !.recordIdsByIndex = [i \in 1..Len(records) |-> 0],
                !.idsToUse = IdsToUse(pool, records), !.fillPos = 1]
    IN IF Len(f.idsToUse) > 0 THEN FillLoopHead(f, stop, batch)
       ELSE StartAppend(f, stop, batch)

\* ---------------------------------------------------------------------
\* Keyword / account run: writeKeywordTikTokData, writeAccountTikTokData
\* ---------------------------------------------------------------------

Cursors == {"0", "10"}
\* a share link as the source delivers it: the link's identity and whether it
\* carries a query string; the empty link is <<0, FALSE>>
RawLinks == {<<0, FALSE>>} \cup ((1..NumKeys) \X BOOLEAN)

\* normalizeUrlKey: protocol + host + path, lower-cased, query and hash dropped
normalizeUrlKey(raw) == raw[1]

RECURSIVE SeqsUpTo(_, _)
SeqsUpTo(S, n) ==
    IF n = 0 THEN {<<>>}
    ELSE SeqsUpTo(S, n - 1)
         \cup {Append(s, x) : s \in {t \in SeqsUpTo(S, n - 1) : Len(t) = n - 1}, x \in S}

\* the locals of the audio run and of fetchAudioTranscript
IdleAudio ==
    [left |-> 0,            \* records the column loop has still to process
     endpoints |-> 0,       \* getAudioEndpoints().length
     endpoint |-> 0, attempt |-> 0,
     last |-> "none",       \* how the last transcript request ended
     result |-> "none",     \* result.status of fetchAudioTranscript
     value |-> "none",      \* what processRecord is writing: "text" or "empty"
     processedCount |-> 0,
     requests |-> [e \in 1..MaxEndpoints |-> 0],  \* (history) requests for the record
     outputs |-> <<>>]      \* (history) what was written to the output field

IdleRun ==
    [pc |-> "idle", kind |-> "keyword", isCollecting |-> FALSE,
     isStopping |-> FALSE, abortController |-> "null",
     existingLinks |-> {}, scanToken |-> 0,
     totalWritten |-> 0, remainingAfterWrite |-> -1,
     hasMore |-> TRUE, offset |-> "0", pageCount |-> 0,
     missingNextCursorOffset |-> "null",
     coverEnabled |-> FALSE, coverAttempt |-> 0,
     coverFile |-> "unset",  \* let coverFile: "unset", "file" or "undefined"
     sleepMs |-> 0,          \* the delay of the sleep a side-fetch is in
     audio |-> IdleAudio,
     validItems |-> <<>>, recordsToInsert |-> <<>>,
     has_more |-> FALSE, nextCursorText |-> "",
     message |-> "none",
     skipped |-> FALSE]      \* (history) the item loop has skipped an item

\* the synchronous code works on the run's locals, the persist frame, the
\* pool of empty rows and the run's own stop flag
Ctx(r, f, pool, stop, batch) ==
    [r |-> r, p |-> f, pool |-> pool, stop |-> stop, batch |-> batch]

\* applyQuotaConsumption (-1 is null)
applyQuotaConsumption(currentRemaining, count) ==
    IF count <= 0 THEN currentRemaining
    ELSE IF currentRemaining = -1 THEN -1
    ELSE Max(currentRemaining - count, 0)

\* the locals of one loop iteration go out of scope when it ends
EndPage(r) ==
    [r EXCEPT !.validItems = <<>>, !.recordsToInsert = <<>>,
              !.coverAttempt = 0, !.coverFile = "unset", !.sleepMs = 0,
              !.has_more = FALSE, !.nextCursorText = ""]

\* a finally block that leaves the indicators as they are
FinallyKeepsIndicators(r) ==
    [EndPage(r) EXCEPT !.pc = "done", !.abortController = "null"]

\* the finally block: abortControllerRef.current = null, setIsCollecting(false)
Finally(r) ==
    [EndPage(r) EXCEPT !.pc = "done", !.abortController = "null",
                       !.isCollecting = FALSE, !.isStopping = FALSE]

\* the lines after mainLoop, and the finally block
Final(c) ==
    [c EXCEPT !.r = [Finally(c.r) EXCEPT
                        !.message = IF c.stop THEN "stopped" ELSE "success"],
              !.p = IdleFrame]

\* catch (error) of the run, and the finally block
Failed(c) ==
    [c EXCEPT !.r = [Finally(c.r) EXCEPT !.message = "failed"],
              !.p = IdleFrame]

\* the loop condition without the page ceiling
MainLoopHeadNoCeiling(c) ==
    IF c.r.hasMore /\ ~c.stop
    THEN [c EXCEPT !.r.pc = "fetch", !.r.abortController = "live"]
    ELSE Final(c)

\* mainLoop: while (hasMore && !stop && pageCount < maxPages) { ... fetch }
MainLoopHead(c) ==
    IF c.r.hasMore /\ ~c.stop /\ c.r.pageCount < maxPages
    THEN [c EXCEPT !.r.pc = "fetch", !.r.abortController = "live"]
    ELSE Final(c)

\* the cursor logic retrying a stalled cursor without remembering the retry
NextCursorAlwaysRetry(r, has_more, nextCursorText) ==
    IF has_more
    THEN IF nextCursorText = "" \/ nextCursorText = r.offset
         THEN [r EXCEPT !.message = "retry"]
         ELSE [r EXCEPT !.missingNextCursorOffset = "null",
                        !.offset = nextCursorText,
                        !.pageCount = @ + 1, !.message = "page"]
    ELSE [r EXCEPT !.hasMore = FALSE]

\* if (data.has_more) { ... } else { hasMore = false }
NextCursor(r, has_more, nextCursorText) ==
    IF has_more
    THEN IF nextCursorText = "" \/ nextCursorText = r.offset
         THEN IF r.missingNextCursorOffset = r.offset
              THEN [r EXCEPT !.hasMore = FALSE, !.message = "stalled"]
              ELSE [r EXCEPT !.missingNextCursorOffset = r.offset,
                             !.message = "retry"]
         ELSE [r EXCEPT !.missingNextCursorOffset = "null",
                        !.offset = nextCursorText,
                        !.pageCount = @ + 1, !.message = "page"]
    ELSE [r EXCEPT !.hasMore = FALSE]

\* after the page's records are written: stop check, cursor, stop check, delay
AfterWrite(c) ==
    IF c.stop THEN Final(c)
    ELSE [c EXCEPT !.r = [EndPage(NextCursor(c.r, c.r.has_more, c.r.nextCursorText))
                            EXCEPT !.pc = "delay"]]

\* resumption of addRecordsInBatches in the run
AfterPersist(c) ==
    IF c.p.pc = "returned"
    THEN LET writtenCount == c.p.appendedCount + c.p.filledCount IN
         AfterWrite([c EXCEPT
            !.r.remainingAfterWrite = applyQuotaConsumption(@, writtenCount),
            !.r.totalWritten = @ + writtenCount,
            !.r.message = "written",
            !.p = IdleFrame])
    ELSE IF c.p.pc = "threw" THEN Failed(c)
    ELSE c

\* if (recordsToInsert.length) { await addRecordsInBatches(...) }
WritePage(c) ==
    IF c.r.recordsToInsert # <<>>
    THEN AfterPersist([c EXCEPT
            !.r.pc = "persist",
            !.p = AddRecordsInBatches(c.r.recordsToInsert, c.pool,
                                      defaultBatchSize, c.stop, c.batch),
            !.pool = PoolAfter(c.pool, c.r.recordsToInsert)])
    ELSE AfterWrite(c)

RECURSIVE ItemLoop(_)
\* for (const item of validItems) { stop check; dedup; cover; build; push }
\* (validItems holds the items the loop has still to visit)
ItemLoop(c) ==
    IF c.r.validItems = <<>> THEN WritePage(c)
    ELSE IF c.stop THEN Final(c)
    ELSE LET linkKey == normalizeUrlKey(Head(c.r.validItems)) IN
         IF linkKey = 0 \/ linkKey \in c.r.existingLinks
         THEN ItemLoop([c EXCEPT !.r.validItems = Tail(@), !.r.skipped = TRUE])
         ELSE LET d == [c EXCEPT !.r.existingLinks = @ \cup {linkKey}] IN
              IF d.r.coverEnabled
              THEN [d EXCEPT !.r.pc = "cover", !.r.coverAttempt = 1]
              ELSE [d EXCEPT !.r.pc = "build"]


\* resumption of buildKeywordRecord / buildAccountRecord: recordsToInsert.push
AfterBuild(c) ==
    ItemLoop([c EXCEPT
        !.r.coverFile = "unset",
        !.r.recordsToInsert = Append(@, normalizeUrlKey(Head(c.r.validItems))),
        !.r.validItems = Tail(@)])

\* fetchCoverFile has returned: if (stop) break mainLoop; then build the record
AfterCoverFile(c) ==
    IF c.stop THEN Final(c) ELSE [c EXCEPT !.r.pc = "build", !.r.coverAttempt = 0]

RECURSIVE Pow2(_)
Pow2(n) == IF n <= 0 THEN 1 ELSE 2 * Pow2(n - 1)

\* a constant delay between the attempts
coverDelayMsFlat(attempt) == coverBaseDelayMs

\* const delayMs = baseDelayMs * Math.pow(2, attempt - 1)
coverDelayMs(attempt) == coverBaseDelayMs * Pow2(attempt - 1)

\* fetchCoverFile retrying without a bound
AfterCoverAttemptUnbounded(c, result) ==
    IF result = "failed"
    THEN [c EXCEPT !.r.pc = "coverSleep",
                   !.r.sleepMs = coverDelayMs(c.r.coverAttempt)]
    ELSE AfterCoverFile([c EXCEPT
            !.r.coverFile = IF result = "file" THEN "file" ELSE "undefined"])

\* resumption of one download attempt of fetchCoverFile
\* result: "file", "failed" (not ok, empty body or exception), "aborted"
AfterCoverAttempt(c, result) ==
    IF result = "failed" /\ c.r.coverAttempt < coverMaxAttempts
    THEN [c EXCEPT !.r.pc = "coverSleep",
                   !.r.sleepMs = coverDelayMs(c.r.coverAttempt)]
    ELSE AfterCoverFile([c EXCEPT
            !.r.coverFile = IF result = "file" THEN "file" ELSE "undefined"])

\* resumption of sleep(delayMs) in fetchCoverFile: next attempt, which first
\* reads options.signal.aborted
AfterCoverSleep(c) ==
    IF c.r.abortController = "aborted"
    THEN AfterCoverFile([c EXCEPT !.r.sleepMs = 0, !.r.coverFile = "undefined"])
    ELSE [c EXCEPT !.r.pc = "cover", !.r.coverAttempt = @ + 1, !.r.sleepMs = 0]

\* handle429Error for response.status === 429, as seen by the paged run
Handle429(c) == [c EXCEPT !.stop = TRUE]

\* the page fetch with an AbortError rethrown like any other error
AfterFetchAbortRethrown(c, resp) ==
    IF resp.type \in {"abortError", "networkError"} THEN Failed(c)
    ELSE IF resp.type = "quota429" THEN Final(Handle429(c))
    ELSE IF c.r.kind = "account" /\ c.stop THEN Final(c)
    ELSE IF resp.type = "httpError" THEN Failed(c)
    ELSE IF resp.type = "malformed" THEN Final(c)
    ELSE LET d == [c EXCEPT !.r.validItems = resp.items,
                            !.r.recordsToInsert = <<>>,
                            !.r.has_more = resp.has_more,
                            !.r.nextCursorText = resp.cursor] IN
         IF resp.items = <<>> THEN AfterWrite(d) ELSE ItemLoop(d)

\* resumption of the page fetch (fetchKeywordVideos / fetchAccountVideos and
\* response.json())
AfterFetch(c, resp) ==
    IF resp.type = "abortError" THEN Final(c)
    ELSE IF resp.type = "networkError" THEN Failed(c)
    ELSE IF resp.type = "quota429" THEN Final(Handle429(c))
    ELSE IF c.r.kind = "account" /\ c.stop THEN Final(c)
    ELSE IF resp.type = "httpError" THEN Failed(c)
    ELSE IF resp.type = "malformed" THEN Final(c)
    ELSE LET d == [c EXCEPT !.r.validItems = resp.items,
                            !.r.recordsToInsert = <<>>,
                            !.r.has_more = resp.has_more,
                            !.r.nextCursorText = resp.cursor] IN
         IF resp.items = <<>> THEN AfterWrite(d) ELSE ItemLoop(d)

\* getEmptyRecords: while (hasMore) { if (stopRef?.current) break; getRecords }
EmptyScanHead(c, more) ==
    IF more /\ ~c.stop THEN [c EXCEPT !.r.pc = "scanEmpty"]
    ELSE MainLoopHead([c EXCEPT !.r.scanToken = 0])

\* collectExistingKeys: while (hasMore && scanned < maxScan) { getRecords }
KeyScanHead(c, more) ==
    IF more THEN [c EXCEPT !.r.pc = "scanKeys"]
    ELSE EmptyScanHead([c EXCEPT !.r.scanToken = 0], TRUE)

\* table.getRecords({ pageSize, pageToken }) on the rows the table holds
PageRows(rows, token) ==
    {i \in 1..Len(rows) : token * ScanPageSize < i /\ i <= (token + 1) * ScanPageSize}
PageHasMore(rows, token) == (token + 1) * ScanPageSize < Len(rows)

\* the key scan dropping the keys it reads
AfterScanKeysNoSeed(c, rows) ==
    LET scanned == Min(Len(rows), (c.r.scanToken + 1) * ScanPageSize) IN
    KeyScanHead([c EXCEPT !.r.scanToken = @ + 1],
                PageHasMore(rows, c.r.scanToken) /\ scanned < keysMaxScan)

\* resumption of getRecords in collectExistingKeys
AfterScanKeys(c, rows) ==
    LET page == PageRows(rows, c.r.scanToken)
        scanned == Min(Len(rows), (c.r.scanToken + 1) * ScanPageSize) IN
    KeyScanHead([c EXCEPT
        !.r.existingLinks = @ \cup {rows[i] : i \in {j \in page : rows[j] > 0}},
        !.r.scanToken = @ + 1],
        PageHasMore(rows, c.r.scanToken) /\ scanned < keysMaxScan)

RECURSIVE SortedSeq(_)
SortedSeq(S) ==
    IF S = {} THEN <<>>
    ELSE LET m == CHOOSE x \in S : \A y \in S : x <= y
         IN <<m>> \o SortedSeq(S \ {m})

\* resumption of getRecords in getEmptyRecords
AfterScanEmpty(c, rows) ==
    LET page == PageRows(rows, c.r.scanToken)
        scanned == Min(Len(rows), (c.r.scanToken + 1) * ScanPageSize) IN
    EmptyScanHead([c EXCEPT
        !.pool = @ \o SortedSeq({j \in page : rows[j] = -1}),
        !.r.scanToken = @ + 1],
        PageHasMore(rows, c.r.scanToken) /\ scanned < emptyMaxScan)

\* the awaits before the pre-scans are done (getActiveTable, createNewTable,
\* ensureFields, refreshFields, buildFieldWriters)
AfterSetup(c, ok) ==
    IF ok THEN KeyScanHead(c, TRUE) ELSE Failed(c)

\* writeKeywordTikTokData / writeAccountTikTokData up to the first await
\* ---------------------------------------------------------------------
\* The audio run in column mode (handleAudioExtract, fetchAudioTranscript)
\* ---------------------------------------------------------------------

\* fetchAudioTranscript returns; processRecord then writes the transcript, or
\* '' when the result is not 'ok' or the stop flag is set
TranscriptResult(c, result) ==
    [c EXCEPT !.r.pc = "audioWrite", !.r.sleepMs = 0,
              !.r.audio.result = result,
              !.r.audio.value = IF result = "ok" /\ ~c.stop THEN "text" ELSE "empty",
              !.r.audio.endpoint = 0, !.r.audio.attempt = 0]

\* for (attempt ...) { if (audioShouldStopRef.current || audioSignal.aborted)
\*   return { status: 'aborted' }; response = await fetchWithIdentity(...) }
AttemptHead(c) ==
    IF c.stop \/ c.r.abortController = "aborted" THEN TranscriptResult(c, "aborted")
    ELSE [c EXCEPT !.r.pc = "transcript", !.r.sleepMs = 0,
                   !.r.audio.requests[c.r.audio.endpoint] = @ + 1]

\* `break` out of the attempt loop: the next endpoint, or the final
\* return { status: 'error' }
NextEndpoint(c) ==
    IF c.r.audio.endpoint < c.r.audio.endpoints
    THEN AttemptHead([c EXCEPT !.r.audio.endpoint = @ + 1, !.r.audio.attempt = 1])
    ELSE TranscriptResult(c, "error")

\* the delay before the next attempt: retryAfter * 1000 when the busy
\* response carries a positive hint, baseDelayMs * attempt otherwise
transcriptDelayMs(attempt, retryAfter) ==
    IF retryAfter > 0 THEN retryAfter * 1000 ELSE transcriptBaseDelayMs * attempt

\* fetchAudioTranscript retrying a busy endpoint without a bound
AfterTranscriptUnbounded(c, resp) ==
    LET d == [c EXCEPT !.r.audio.last = resp.type] IN
    IF resp.type = "rejected"
    THEN IF d.stop \/ d.r.abortController = "aborted" THEN TranscriptResult(d, "aborted")
         ELSE IF d.r.audio.attempt >= transcriptMaxAttempts THEN NextEndpoint(d)
         ELSE [d EXCEPT !.r.pc = "transcriptSleep",
                        !.r.sleepMs = transcriptDelayMs(d.r.audio.attempt, 0)]
    ELSE IF resp.type = "quota429" THEN TranscriptResult([d EXCEPT !.stop = TRUE], "quota")
    ELSE IF resp.type = "busy"
    THEN [d EXCEPT !.r.pc = "transcriptSleep",
                   !.r.sleepMs = transcriptDelayMs(d.r.audio.attempt, resp.retryAfter)]
    ELSE IF resp.type = "error" THEN TranscriptResult(d, "error")
    ELSE TranscriptResult(d, "ok")

\* resumption of the request of fetchAudioTranscript
AfterTranscript(c, resp) ==
    LET d == [c EXCEPT !.r.audio.last = resp.type] IN
    IF resp.type = "rejected"
    THEN IF d.stop \/ d.r.abortController = "aborted" THEN TranscriptResult(d, "aborted")
         ELSE IF d.r.audio.attempt >= transcriptMaxAttempts THEN NextEndpoint(d)
         ELSE [d EXCEPT !.r.pc = "transcriptSleep",
                        !.r.sleepMs = transcriptDelayMs(d.r.audio.attempt, 0)]
    ELSE IF resp.type = "quota429" THEN TranscriptResult([d EXCEPT !.stop = TRUE], "quota")
    ELSE IF resp.type = "busy"
    THEN IF d.r.audio.attempt < transcriptMaxAttempts
         THEN [d EXCEPT !.r.pc = "transcriptSleep",
                        !.r.sleepMs = transcriptDelayMs(d.r.audio.attempt, resp.retryAfter)]
         ELSE TranscriptResult(d, "error")
    ELSE IF resp.type = "error" THEN TranscriptResult(d, "error")
    ELSE TranscriptResult(d, "ok")

\* resumption of sleep(delayMs) in fetchAudioTranscript: continue
AfterTranscriptSleep(c) == AttemptHead([c EXCEPT !.r.audio.attempt = @ + 1])

\* while (!stop && hasMore) / for (i ... && !stop): processRecord of the next
\* record, up to its first transcript request
AudioLoopHead(c) ==
    IF c.stop \/ c.r.audio.left = 0 THEN Final(c)
    ELSE AttemptHead([c EXCEPT
            !.r.audio.endpoint = 1, !.r.audio.attempt = 1,
            !.r.audio.last = "none", !.r.audio.result = "none",
            !.r.audio.value = "none",
            !.r.audio.requests = [e \in 1..MaxEndpoints |-> 0]])

\* resumption of setCellValue(audioOutputField, recordId, ...): a write that
\* throws ends the run in its catch block
AfterAudioWrite(c, ok) ==
    IF ~ok THEN Failed(c)
    ELSE AudioLoopHead([c EXCEPT
            !.r.audio.outputs = Append(@, [value |-> c.r.audio.value,
                                           requests |-> c.r.audio.requests]),
            !.r.audio.processedCount = IF c.r.audio.value = "text" THEN @ + 1 ELSE @,
            !.r.audio.left = @ - 1])

\* useState<QuotaInfo | null>(null): nothing is known about the quota yet
NoQuota == [remaining |-> -1, status |-> "none"]

\* what a session in which runs are started knows about its quota
KnownQuota == {NoQuota} \cup {[remaining |-> n, status |-> "available"] : n \in 0..MaxQuota}

quotaUnavailable == quotaInfo.status = "unavailable"

quotaAvailable == quotaInfo.status = "available" /\ quotaInfo.remaining # -1

\* keywordQuotaInsufficient, accountQuotaInsufficient, audioQuotaInsufficient and
\* (with rows to fetch) accountInfoQuotaInsufficient: the start button is disabled
quotaZero == quotaAvailable /\ quotaInfo.remaining <= 0

StartRun(kind, cover, remaining) ==
    [IdleRun EXCEPT !.pc = "setup", !.kind = kind, !.isCollecting = TRUE,
                    !.coverEnabled = cover,
                    !.remainingAfterWrite = remaining]


\* ---------------------------------------------------------------------
\* The four run kinds side by side: each run alternates source requests and
\* datastore writes; what is kept of a run is its position, its abort
\* controller and how many requests and writes it has made
\* ---------------------------------------------------------------------

IdleRuns ==
    [kd \in Kinds |->
        [pc |-> "idle", controller |-> "null", fetches |-> 0, written |-> 0,
         loading |-> FALSE,         \* isCollecting / accountInfoLoading / audioLoading
         stopPressed |-> FALSE,     \* (history) the kind's stop handler has run
         quotaHit |-> FALSE]]       \* (history) a 429 arrived while the run was active

\* the flags handle429Error raises (useQuota.ts lines 157-159)
Raise429(flags) ==
    [kd \in Kinds |-> IF kd \in {"keyword", "account", "audio"} THEN TRUE ELSE flags[kd]]

\* the finally block of a run
EndKind(rs, kd) ==
    [rs EXCEPT ![kd].pc = "done", ![kd].controller = "null", ![kd].loading = FALSE]

\* the loop condition a run evaluates before its next source request:
\* mainLoop of the paged runs, `for (const name of names)` of account-info,
\* `for (i < urls.length && !stop)` and the attempt loop of audio
LoopHead(rs, flags, kd) ==
    IF flags[kd] \/ rs[kd].fetches >= MaxFetches
       \/ (kd = "audio" /\ rs[kd].controller = "aborted")
    THEN EndKind(rs, kd)
    ELSE [rs EXCEPT ![kd].pc = "fetch", ![kd].fetches = @ + 1,
                    ![kd].controller = IF kd \in PagedKinds THEN "live" ELSE @]

\* every active run is marked when a 429 arrives
MarkQuotaHit(rs) ==
    [kd \in Kinds |-> [rs[kd] EXCEPT !.quotaHit = @ \/ rs[kd].pc \notin {"idle", "done"}]]

\* ---------------------------------------------------------------------
\* State machine
\* ---------------------------------------------------------------------

NoHistory ==
    [cancelRequested |-> FALSE,  \* the stop handler of the run's kind has run
     issued |-> "none",          \* the request the last step left pending
     fetches |-> 0,              \* page requests issued by the run
     lastOffset |-> "null",      \* offset of the last page request
     attempts |-> 0,             \* consecutive page requests at lastOffset
     stallEnded |-> FALSE,       \* pagination ended on a stalled cursor
     cancelAt |-> "none",        \* what the run was waiting for when stop was pressed
     startRemaining |-> -1,      \* quotaInfo.remaining when the run started
     faults |-> FALSE,           \* a datastore write of the run has thrown
     quotaRead |-> "none",       \* the quota read in flight or how the last one ended
     lastResp |-> "none"]        \* how the last page fetch of the run ended

Here == Ctx(run, p, emptyRecordIds, shouldStopRef[run.kind], hasAddRecords)

\* the request a suspended run is waiting for
Pending(c) ==
    IF c.r.pc \in {"persist", "call"}
    THEN (IF c.p.pc \in {"setCell", "addRecords", "addRecord"} THEN c.p.pc ELSE "none")
    ELSE IF c.r.pc \in {"idle", "done"} THEN "none"
    ELSE c.r.pc

History(c) ==
    [hist EXCEPT
        !.issued = Pending(c),
        !.fetches = IF c.r.pc = "fetch" THEN @ + 1 ELSE @,
        !.lastOffset = IF c.r.pc = "fetch" THEN c.r.offset ELSE @,
        !.attempts = IF c.r.pc # "fetch" THEN @
                     ELSE IF hist.lastOffset = c.r.offset THEN @ + 1 ELSE 1,
        !.stallEnded = @ \/ (run.hasMore /\ run.message # "stalled"
                             /\ c.r.message = "stalled")]

\* one resumption of the run: its locals, the persist frame and the pool
Resumed(c, fault) ==
    /\ run' = c.r
    /\ p' = c.p
    /\ emptyRecordIds' = c.pool
    /\ hist' = [History(c) EXCEPT !.faults = @ \/ fault]

Resume(c) == Resumed(c, FALSE)

Start ==
    /\ run.pc = "idle"
    /\ ~quotaZero
    /\ ~quotaUnavailable
    /\ \E kind \in PagedKinds, cover \in BOOLEAN :
          /\ run' = StartRun(kind, cover, quotaInfo.remaining)
          /\ shouldStopRef' = [shouldStopRef EXCEPT ![kind] = FALSE]
    /\ hist' = [NoHistory EXCEPT !.issued = "setup",
                                 !.startRemaining = quotaInfo.remaining]
    /\ UNCHANGED <<runs, p, emptyRecordIds, quotaInfo, hasAddRecords, preRows, cells,
                   writeLog, nextRowId, srcLeft>>

SetupReturns ==
    /\ run.pc = "setup"
    /\ \E ok \in BOOLEAN : Resume(AfterSetup(Here, ok))
    /\ UNCHANGED <<runs, shouldStopRef, quotaInfo, hasAddRecords, preRows, cells,
                   writeLog, nextRowId, srcLeft>>

ScanKeysReturns ==
    /\ run.pc = "scanKeys"
    /\ Resume(AfterScanKeys(Here, preRows))
    /\ UNCHANGED <<runs, shouldStopRef, quotaInfo, hasAddRecords, preRows, cells,
                   writeLog, nextRowId, srcLeft>>

ScanEmptyReturns ==
    /\ run.pc = "scanEmpty"
    /\ Resume(AfterScanEmpty(Here, preRows))
    /\ UNCHANGED <<runs, shouldStopRef, quotaInfo, hasAddRecords, preRows, cells,
                   writeLog, nextRowId, srcLeft>>

Responses ==
    {[type |-> t, items |-> <<>>, has_more |-> FALSE, cursor |-> ""] :
        t \in {"abortError", "networkError", "quota429", "httpError", "malformed"}}
    \cup {[type |-> "ok", items |-> it, has_more |-> FALSE, cursor |-> ""] :
            it \in SeqsUpTo(RawLinks, MaxItems)}
    \cup {[type |-> "ok", items |-> it, has_more |-> TRUE, cursor |-> cu] :
            it \in SeqsUpTo(RawLinks, MaxItems), cu \in Cursors \cup {""}}

\* how a page fetch ended: an AbortError comes from the run's own controller
\* (stop pressed) or from the timeout controller merged into the request
ResponseKind(resp) ==
    IF resp.type # "abortError" THEN resp.type
    ELSE IF run.abortController = "aborted" THEN "cancelAbort"
    ELSE "timeout"

\* the resumption of the page fetch, with the response noted
Fetched(c, resp) ==
    /\ run' = c.r
    /\ p' = c.p
    /\ emptyRecordIds' = c.pool
    /\ hist' = [History(c) EXCEPT !.lastResp = ResponseKind(resp)]

\* the page fetch returns one of the responses the source can give
FetchReturnsFrom(responses) ==
    /\ run.pc = "fetch"
    /\ \E resp \in responses :
          /\ run.abortController = "aborted" => resp.type = "abortError"
          /\ resp.has_more => srcLeft > 0
          /\ srcLeft' = IF resp.has_more THEN srcLeft - 1 ELSE srcLeft
          /\ IF resp.type = "quota429"
             THEN /\ shouldStopRef' = Raise429(shouldStopRef)
                  /\ quotaInfo' = [quotaInfo EXCEPT !.remaining = 0, !.status = "available"]
                  /\ Fetched(AfterFetch(Here, resp), resp)
             ELSE /\ Fetched(AfterFetch(Here, resp), resp)
                  /\ UNCHANGED <<runs, shouldStopRef, quotaInfo>>
    /\ UNCHANGED <<runs, hasAddRecords, preRows, cells, writeLog, nextRowId>>

FetchReturns == FetchReturnsFrom(Responses)

CoverReturns ==
    /\ run.pc = "cover"
    /\ \E result \in {"file", "failed", "aborted"} :
          /\ (result = "aborted") <=> (run.abortController = "aborted")
          /\ Resume(AfterCoverAttempt(Here, result))
    /\ UNCHANGED <<runs, shouldStopRef, quotaInfo, hasAddRecords, preRows, cells,
                   writeLog, nextRowId, srcLeft>>

CoverSleepReturns ==
    /\ run.pc = "coverSleep"
    /\ Resume(AfterCoverSleep(Here))
    /\ UNCHANGED <<runs, shouldStopRef, quotaInfo, hasAddRecords, preRows, cells,
                   writeLog, nextRowId, srcLeft>>

BuildReturns ==
    /\ run.pc = "build"
    /\ Resume(AfterBuild(Here))
    /\ UNCHANGED <<runs, shouldStopRef, quotaInfo, hasAddRecords, preRows, cells,
                   writeLog, nextRowId, srcLeft>>

DelayReturns ==
    /\ run.pc = "delay"
    /\ Resume(MainLoopHead(Here))
    /\ UNCHANGED <<runs, shouldStopRef, quotaInfo, hasAddRecords, preRows, cells,
                   writeLog, nextRowId, srcLeft>>

\* the caller of the persist call goes on once the call has returned or thrown
PersistResume(c) == IF c.r.pc = "persist" THEN AfterPersist(c) ELSE c

Written(index, row, via) ==
    [key |-> p.records[index], row |-> row, via |-> via, index |-> index,
     page |-> hist.fetches, requeued |-> index \in p.requeued]

SetCellValueReturns ==
    /\ p.pc = "setCell"
    /\ \E ok \in BOOLEAN :
        LET row == p.idsToUse[p.fillPos] IN
          /\ cells' = IF ok THEN cells \cup {<<row, p.records[p.nextRecord], p.fieldPos + 1>>}
                      ELSE cells
          /\ writeLog' = IF ok /\ p.fieldPos + 1 = NumFields
                         THEN Append(writeLog, Written(p.nextRecord, row, "fill"))
                         ELSE writeLog
          /\ Resumed(PersistResume([Here EXCEPT
                !.p = AfterSetCell(p, ok, shouldStopRef[run.kind], hasAddRecords)]), ~ok)
    /\ UNCHANGED <<runs, shouldStopRef, quotaInfo, hasAddRecords, preRows, nextRowId, srcLeft>>

AddRecordsReturns ==
    /\ p.pc = "addRecords"
    /\ \/ LET chunk == p.chunks[p.chunkPos]
              ids == [j \in 1..Len(chunk) |-> 0 - (nextRowId + j)] IN
            /\ writeLog' = writeLog \o [j \in 1..Len(chunk) |->
                                           Written(chunk[j], ids[j], "append")]
            /\ nextRowId' = nextRowId + Len(chunk)
            /\ Resume(PersistResume([Here EXCEPT
                  !.p = AfterAddRecords(p, ids, shouldStopRef[run.kind], hasAddRecords)]))
       \/ /\ Resumed(PersistResume([Here EXCEPT !.p.pc = "threw"]), TRUE)
          /\ UNCHANGED <<runs, writeLog, nextRowId>>
    /\ UNCHANGED <<runs, shouldStopRef, quotaInfo, hasAddRecords, preRows, cells, srcLeft>>

AddRecordReturns ==
    /\ p.pc = "addRecord"
    /\ \/ LET index == p.chunks[p.chunkPos][p.recPos]
              id == 0 - (nextRowId + 1) IN
            /\ writeLog' = Append(writeLog, Written(index, id, "append"))
            /\ nextRowId' = nextRowId + 1
            /\ Resume(PersistResume([Here EXCEPT
                  !.p = AfterAddRecord(p, id, shouldStopRef[run.kind], hasAddRecords)]))
       \/ /\ Resumed(PersistResume([Here EXCEPT !.p.pc = "threw"]), TRUE)
          /\ UNCHANGED <<runs, writeLog, nextRowId>>
    /\ UNCHANGED <<runs, shouldStopRef, quotaInfo, hasAddRecords, preRows, cells, srcLeft>>

\* stopKeywordCollection / stopAccountCollection (the stop button is shown
\* while isCollecting and disabled while isStopping)
StopCollection ==
    /\ run.isCollecting /\ ~run.isStopping
    /\ shouldStopRef' = [shouldStopRef EXCEPT ![run.kind] = TRUE]
    /\ run' = [run EXCEPT !.isStopping = TRUE,
                          !.abortController = IF @ = "null" THEN "null" ELSE "aborted"]
    /\ hist' = [hist EXCEPT !.cancelRequested = TRUE, !.issued = "none",
                            !.cancelAt = IF @ = "none" THEN run.pc ELSE @]
    /\ UNCHANGED <<runs, p, emptyRecordIds, quotaInfo, hasAddRecords, preRows, cells,
                   writeLog, nextRowId, srcLeft>>

Init ==
    /\ run = IdleRun
    /\ p = IdleFrame
    /\ emptyRecordIds = <<>>
    /\ shouldStopRef = [kd \in Kinds |-> FALSE]
    /\ quotaInfo \in KnownQuota
    /\ hasAddRecords \in BOOLEAN
    /\ preRows \in SeqsUpTo({-1} \cup (1..NumKeys), MaxRows)
    /\ cells = {}
    /\ writeLog = <<>>
    /\ nextRowId = 0
    /\ srcLeft = MaxSourcePages
    /\ hist = NoHistory
    /\ runs = IdleRuns

Next ==
    \/ Start
    \/ SetupReturns
    \/ ScanKeysReturns
    \/ ScanEmptyReturns
    \/ FetchReturns
    \/ CoverReturns
    \/ CoverSleepReturns
    \/ BuildReturns
    \/ SetCellValueReturns
    \/ AddRecordsReturns
    \/ AddRecordReturns
    \/ DelayReturns
    \/ StopCollection

Spec == Init /\ [][Next]_vars

TypeOK ==
    /\ run.pc \in {"idle", "setup", "scanKeys", "scanEmpty", "fetch", "cover",
                   "coverSleep", "build", "persist", "delay", "done", "call"}
    /\ p.pc \in {"idle", "setCell", "addRecords", "addRecord", "returned", "threw"}
    /\ run.pc = "persist" => p.pc \in {"setCell", "addRecords", "addRecord"}

\* ---------------------------------------------------------------------
\* Properties of the keyword / account run
\* ---------------------------------------------------------------------

\* the run waits out the inter-page delay before it retries its cursor
RetryPending(r) ==
    /\ r.pc = "delay"
    /\ r.hasMore
    /\ r.missingNextCursorOffset = r.offset

\* C1: when a response has has_more = true and no new cursor, the run keeps
\* its cursor and requests it once more; when that second response brings no
\* new cursor either, pagination ends: two requests were made at that cursor,
\* and after that no page is requested and no record is written.
C1_StallRetriesOnce ==
    [][/\ hist'.attempts <= 2
       /\ RetryPending(run')
              => (run'.offset = hist'.lastOffset /\ hist'.attempts = 1)
       /\ (RetryPending(run) /\ run'.pc = "fetch")
              => (hist'.lastOffset = hist.lastOffset /\ hist'.attempts = 2)
       /\ hist'.stallEnded => hist'.attempts = 2
       /\ hist.stallEnded => (hist'.fetches = hist.fetches /\ writeLog' = writeLog)]_vars

\* a run that ended on a stalled cursor
C1_Witness ==
    /\ run.pc = "done"
    /\ hist.stallEnded
    /\ hist.attempts = 2

\* the keys the pre-scan found in the table
PreScanKeys == {preRows[i] : i \in {j \in 1..Len(preRows) : preRows[j] > 0}}

C5_CancelObservedAtNextPoint ==
    [][hist.cancelAt \in {"scanKeys", "scanEmpty", "fetch", "cover", "coverSleep", "delay"}
          => hist'.issued \notin {"fetch", "cover", "scanKeys", "scanEmpty"}]_vars

\* C8: between the write operations of a run the local counter
\* remainingAfterWrite equals the remaining quota of the run's start less the
\* number of records the run has persisted (not below 0).
C8_DecrementEqualsPersisted ==
    (run.pc \notin {"idle", "call", "persist"} /\ hist.startRemaining # -1)
        => run.remainingAfterWrite = Max(hist.startRemaining - Len(writeLog), 0)

\* ---------------------------------------------------------------------
\* A persist call on its own: addRecordsInBatches(table, records,
\* { batchSize, emptyRecordIds, stopRef }) with the stop button live
\* ---------------------------------------------------------------------

\* the caller hands over M records, the pool and a batch size
CallPersist ==
    /\ run.pc = "call"
    /\ p.pc = "idle"
    /\ \E m \in 0..MaxRecords, size \in {SmallBatch, defaultBatchSize} :
          LET records == [i \in 1..m |-> i] IN
          Resume([Here EXCEPT
              !.p = AddRecordsInBatches(records, emptyRecordIds, size,
                                        shouldStopRef[run.kind], hasAddRecords),
              !.pool = PoolAfter(emptyRecordIds, records)])
    /\ UNCHANGED <<runs, shouldStopRef, quotaInfo, hasAddRecords, preRows, cells,
                   writeLog, nextRowId, srcLeft>>

InitPersist ==
    /\ run = [IdleRun EXCEPT !.pc = "call", !.isCollecting = TRUE]
    /\ p = IdleFrame
    /\ \E n \in 0..MaxSlots :
          /\ emptyRecordIds = [i \in 1..n |-> i]
          /\ preRows = [i \in 1..n |-> -1]
    /\ shouldStopRef = [kd \in Kinds |-> FALSE]
    /\ quotaInfo = NoQuota
    /\ hasAddRecords \in BOOLEAN
    /\ cells = {}
    /\ writeLog = <<>>
    /\ nextRowId = 0
    /\ srcLeft = 0
    /\ hist = NoHistory
    /\ runs = IdleRuns

NextPersist ==
    \/ CallPersist
    \/ SetCellValueReturns
    \/ AddRecordsReturns
    \/ AddRecordReturns
    \/ StopCollection

SpecPersist == InitPersist /\ [][NextPersist]_vars

\* records of the log written through one interface
Committed(via) == {i \in 1..Len(writeLog) : writeLog[i].via = via}

\* the persist call has returned without a failed write and without a stop
CleanReturn ==
    /\ run.pc = "call"
    /\ p.pc = "returned"
    /\ ~hist.faults
    /\ ~shouldStopRef[run.kind]

\* N slots were offered for M > N records
MoreRecordsThanSlots ==
    /\ Len(p.records) > Len(p.idsToUse)
    /\ emptyRecordIds = <<>>

\* N fills, M - N appends, an id at every index
SplitsExactly ==
    LET M == Len(p.records)
        N == Len(p.idsToUse) IN
    /\ p.filledCount = N
    /\ p.appendedCount = M - N
    /\ Cardinality(Committed("fill")) = N
    /\ Cardinality(Committed("append")) = M - N
    /\ Len(p.recordIdsByIndex) = M
    /\ \A i \in 1..M : p.recordIdsByIndex[i] # 0
    /\ \A i, j \in 1..M : i # j => p.recordIdsByIndex[i] # p.recordIdsByIndex[j]

FillStarts ==
    /\ p'.pc = "setCell"
    /\ p.pc # "setCell" \/ p'.fillPos # p.fillPos

\* a new append chunk starts in this step
ChunkStarts ==
    /\ p'.pc \in {"addRecords", "addRecord"}
    /\ p.pc \notin {"addRecords", "addRecord"} \/ p'.chunkPos # p.chunkPos

\* every committed record is reported by the call's result
CommittedReported ==
    /\ Cardinality(Committed("fill")) <= p.filledCount
    /\ Cardinality(Committed("append")) = p.appendedCount
    /\ \A i \in 1..Len(writeLog) : p.recordIdsByIndex[writeLog[i].index] = writeLog[i].row

\* C10: in a persist call, once the stop flag is set no new slot fill and no
\* new append chunk is started; what was committed stays in the datastore and,
\* when the call returns, is reported in its counts and ids (no rollback).
C10_StopBetweenWrites ==
    [][/\ (run.pc = "call" /\ shouldStopRef[run.kind]) => (~FillStarts /\ ~ChunkStarts)
       /\ SubSeq(writeLog', 1, Len(writeLog)) = writeLog
       /\ cells \subseteq cells'
       /\ (run'.pc = "call" /\ p'.pc = "returned") => CommittedReported']_vars

\* a call stopped half way: something committed, something left unwritten
C10_Witness ==
    /\ run.pc = "call"
    /\ p.pc = "returned"
    /\ shouldStopRef[run.kind]
    /\ Len(writeLog) > 0
    /\ Len(writeLog) < Len(p.records)

\* ---------------------------------------------------------------------
\* The four run kinds side by side: actions
\* ---------------------------------------------------------------------

Untouched == <<run, p, emptyRecordIds, hasAddRecords, preRows, cells,
               writeLog, nextRowId, srcLeft, hist>>

\* a start button: keyword and account share isCollecting, account-info is
\* gated by accountInfoLoading, audio by audioLoading
StartOf(kd) ==
    /\ runs[kd].pc = "idle"
    /\ kd \in PagedKinds => \A other \in PagedKinds : runs[other].pc \in {"idle", "done"}
    /\ ~quotaZero
    /\ ~quotaUnavailable
    /\ shouldStopRef' = [shouldStopRef EXCEPT ![kd] = FALSE]
    /\ runs' = [runs EXCEPT ![kd].pc = "setup", ![kd].loading = TRUE,
                            ![kd].controller = IF kd = "audio" THEN "live" ELSE @]
    /\ UNCHANGED quotaInfo
    /\ UNCHANGED Untouched

StartKind == \E kd \in Kinds : StartOf(kd)

\* the awaits before the run's loop are done
SetupDone ==
    \E kd \in Kinds :
        /\ runs[kd].pc = "setup"
        /\ runs' = LoopHead(runs, shouldStopRef, kd)
        /\ UNCHANGED <<shouldStopRef, quotaInfo>>
        /\ UNCHANGED Untouched

\* a 429 response: handle429Error, then the run leaves its loop
Quota429Seen(kd, flags) ==
    /\ shouldStopRef' = flags
    /\ quotaInfo' = [quotaInfo EXCEPT !.remaining = 0, !.status = "available"]
    /\ runs' = EndKind(MarkQuotaHit(runs), kd)

\* the page fetch of a keyword or account run returns
PagedFetchDone ==
    \E kd \in PagedKinds, resp \in {"ok", "quota429", "abortError"} :
        /\ runs[kd].pc = "fetch"
        /\ (resp = "abortError") <=> (runs[kd].controller = "aborted")
        /\ IF resp = "quota429" THEN Quota429Seen(kd, Raise429(shouldStopRef))
           ELSE /\ runs' = IF resp = "abortError" \/ shouldStopRef[kd]
                           THEN EndKind(runs, kd)
                           ELSE [runs EXCEPT ![kd].pc = "write"]
                /\ UNCHANGED <<shouldStopRef, quotaInfo>>
        /\ UNCHANGED Untouched

\* fetchAccountInfo returns: the request carries no abort signal
AccountInfoFetchDone ==
    \E resp \in {"ok", "quota429"} :
        /\ runs["accountInfo"].pc = "fetch"
        /\ IF resp = "quota429"
           THEN Quota429Seen("accountInfo",
                             [Raise429(shouldStopRef) EXCEPT !["accountInfo"] = TRUE])
           ELSE /\ runs' = IF shouldStopRef["accountInfo"]
                           THEN EndKind(runs, "accountInfo")
                           ELSE [runs EXCEPT !["accountInfo"].pc = "write"]
                /\ UNCHANGED <<shouldStopRef, quotaInfo>>
        /\ UNCHANGED Untouched

\* fetchAudioTranscript returns: 'quota' and 'aborted' leave the loop, 'ok'
\* goes on to setCellValue
AudioFetchDone ==
    \E resp \in {"ok", "quota429", "abortError"} :
        /\ runs["audio"].pc = "fetch"
        /\ (resp = "abortError") <=> (runs["audio"].controller = "aborted")
        /\ IF resp = "quota429" THEN Quota429Seen("audio", Raise429(shouldStopRef))
           ELSE /\ runs' = IF resp = "abortError"
                           THEN EndKind(runs, "audio")
                           ELSE [runs EXCEPT !["audio"].pc = "write"]
                /\ UNCHANGED <<shouldStopRef, quotaInfo>>
        /\ UNCHANGED Untouched

\* the datastore write of a run commits
WriteDone ==
    \E kd \in Kinds :
        /\ runs[kd].pc = "write"
        /\ runs' = LoopHead([runs EXCEPT ![kd].written = @ + 1], shouldStopRef, kd)
        /\ UNCHANGED <<shouldStopRef, quotaInfo>>
        /\ UNCHANGED Untouched

\* stopKeywordCollection / stopAccountCollection
\* (the controller exists from the run's first page fetch on)
stopPagedCollection ==
    \E kd \in PagedKinds :
        /\ runs[kd].pc \in {"setup", "fetch", "write"}
        /\ ~runs[kd].stopPressed
        /\ shouldStopRef' = [shouldStopRef EXCEPT ![kd] = TRUE]
        /\ runs' = [runs EXCEPT ![kd].stopPressed = TRUE,
                                ![kd].controller = IF @ = "null" THEN "null" ELSE "aborted"]
        /\ UNCHANGED quotaInfo
        /\ UNCHANGED Untouched

stopAudioExtraction ==
    /\ runs["audio"].pc \in {"setup", "fetch", "write"}
    /\ ~runs["audio"].stopPressed
    /\ shouldStopRef' = [shouldStopRef EXCEPT !["audio"] = TRUE]
    /\ runs' = [runs EXCEPT !["audio"].stopPressed = TRUE,
                            !["audio"].loading = FALSE,
                            !["audio"].controller = IF @ = "null" THEN "null" ELSE "aborted"]
    /\ UNCHANGED quotaInfo
    /\ UNCHANGED Untouched

handleAccountInfoStop ==
    /\ runs["accountInfo"].pc \in {"setup", "fetch", "write"}
    /\ ~runs["accountInfo"].stopPressed
    /\ shouldStopRef' = [shouldStopRef EXCEPT !["accountInfo"] = TRUE]
    /\ runs' = [runs EXCEPT !["accountInfo"].stopPressed = TRUE]
    /\ UNCHANGED quotaInfo
    /\ UNCHANGED Untouched

InitRuns ==
    /\ run = IdleRun
    /\ p = IdleFrame
    /\ emptyRecordIds = <<>>
    /\ shouldStopRef = [kd \in Kinds |-> FALSE]
    /\ quotaInfo \in KnownQuota
    /\ hasAddRecords = TRUE
    /\ preRows = <<>>
    /\ cells = {}
    /\ writeLog = <<>>
    /\ nextRowId = 0
    /\ srcLeft = 0
    /\ hist = NoHistory
    /\ runs = IdleRuns

NextRuns ==
    \/ StartKind
    \/ SetupDone
    \/ PagedFetchDone
    \/ AccountInfoFetchDone
    \/ AudioFetchDone
    \/ WriteDone
    \/ stopPagedCollection
    \/ stopAudioExtraction
    \/ handleAccountInfoStop

SpecRuns == InitRuns /\ [][NextRuns]_vars

\* C2: after a run of any kind has received a 429, neither that run nor any
\* run of another kind that was active at that moment issues a further source
\* request.
C2_QuotaStopsEveryRun ==
    [][\A kd \in Kinds : runs[kd].quotaHit => runs'[kd].fetches = runs[kd].fetches]_vars

\* the stop handler of kind kd runs in this step
StopPressed(kd) == runs'[kd].stopPressed /\ ~runs[kd].stopPressed

\* C4: for every run kind, the stop handler sets the run's stop flag and
\* aborts the run's request in flight, and it leaves a datastore write in
\* progress alone: the write stays pending and nothing written is taken back.
C4_CancelSetsFlagAndAborts ==
    [][\A kd \in Kinds :
          StopPressed(kd) =>
              /\ shouldStopRef'[kd]
              /\ runs[kd].pc = "fetch" => runs'[kd].controller = "aborted"
              /\ runs'[kd].pc = runs[kd].pc
              /\ runs'[kd].written = runs[kd].written]_vars

\* ---------------------------------------------------------------------
\* A long run: the source keeps reporting has_more = true and delivers
\* pages without items, so that the page ceiling comes into play
\* ---------------------------------------------------------------------

\* enough has_more responses to pass the ceiling if nothing stopped the run
LongSource == 2 * maxPages + 2

InitLong ==
    /\ run = IdleRun
    /\ p = IdleFrame
    /\ emptyRecordIds = <<>>
    /\ shouldStopRef = [kd \in Kinds |-> FALSE]
    /\ quotaInfo = NoQuota
    /\ hasAddRecords = TRUE
    /\ preRows = <<>>
    /\ cells = {}
    /\ writeLog = <<>>
    /\ nextRowId = 0
    /\ srcLeft = LongSource
    /\ hist = NoHistory
    /\ runs = IdleRuns

\* a run without cover download
StartPlain == Start /\ ~run'.coverEnabled

\* a page response that brings no item
FetchReturnsNoItems == FetchReturnsFrom({resp \in Responses : resp.items = <<>>})

NextLong ==
    \/ StartPlain
    \/ SetupReturns
    \/ ScanKeysReturns
    \/ ScanEmptyReturns
    \/ FetchReturnsNoItems
    \/ DelayReturns
    \/ StopCollection

SpecLong == InitLong /\ [][NextLong]_vars

\* C7 (as amended): the run's page counter never exceeds the ceiling of 100
\* and the page in flight is at most the 100th, even while the source still
\* reports has_more = true; a stalled cursor is requested a second time without
\* being counted, so one run issues at most 2 * 100 page requests.
C7_PageCeiling ==
    /\ run.pageCount <= maxPages
    /\ run.pc = "fetch" => run.pageCount < maxPages
    /\ hist.fetches <= 2 * maxPages

\* a run that the ceiling ended while the source still had more
C7_Witness ==
    /\ run.pc = "done"
    /\ run.hasMore
    /\ run.pageCount = maxPages
    /\ ~shouldStopRef[run.kind]

\* C7 as stated: for every sequence of responses one run fetches at most
\* 100 pages.
C7_Original == hist.fetches <= maxPages

\* ---------------------------------------------------------------------
\* The two-page scenario: the table holds five keys; page 1 brings 15 items,
\* five of them with those keys, has_more = true and the cursor "10"; page 2
\* brings has_more = false and nothing new.  No request fails and nobody
\* presses stop.
\* ---------------------------------------------------------------------

ScenarioOldKeys == 1..5
ScenarioNewKeys == 6..15

\* the 15 items of page 1 in three orders: duplicates first, last, in between
ScenarioPageOne ==
    {[i \in 1..15 |-> <<i, i \in ScenarioOldKeys>>],
     [i \in 1..15 |-> <<16 - i, FALSE>>],
     [i \in 1..15 |-> <<IF i % 3 = 0 THEN i \div 3 ELSE 5 + i - (i \div 3), i % 2 = 0>>]}

ScenarioResponses(n) ==
    IF n = 1
    THEN {[type |-> "ok", items |-> it, has_more |-> TRUE, cursor |-> "10"] :
             it \in ScenarioPageOne}
    ELSE {[type |-> "ok", items |-> it, has_more |-> FALSE, cursor |-> ""] :
             it \in {<<>>, <<<<1, FALSE>>>>, <<<<6, TRUE>>, <<15, FALSE>>>>}}

InitScenario ==
    /\ run = IdleRun
    /\ p = IdleFrame
    /\ emptyRecordIds = <<>>
    /\ shouldStopRef = [kd \in Kinds |-> FALSE]
    /\ quotaInfo \in KnownQuota
    /\ hasAddRecords \in BOOLEAN
    /\ preRows \in {[i \in 1..5 |-> i], [i \in 1..6 |-> IF i = 3 THEN -1 ELSE IF i < 3 THEN i ELSE i - 1]}
    /\ cells = {}
    /\ writeLog = <<>>
    /\ nextRowId = 0
    /\ srcLeft = 1
    /\ hist = NoHistory
    /\ runs = IdleRuns

ScenarioSetupReturns == SetupReturns /\ run'.pc # "done"
ScenarioFetchReturns == FetchReturnsFrom(ScenarioResponses(hist.fetches))
ScenarioSetCellValueReturns == SetCellValueReturns /\ ~hist'.faults
ScenarioAddRecordsReturns == AddRecordsReturns /\ ~hist'.faults
ScenarioAddRecordReturns == AddRecordReturns /\ ~hist'.faults

NextScenario ==
    \/ Start
    \/ ScenarioSetupReturns
    \/ ScanKeysReturns
    \/ ScanEmptyReturns
    \/ ScenarioFetchReturns
    \/ CoverReturns
    \/ CoverSleepReturns
    \/ BuildReturns
    \/ ScenarioSetCellValueReturns
    \/ ScenarioAddRecordsReturns
    \/ ScenarioAddRecordReturns
    \/ DelayReturns

SpecScenario == InitScenario /\ [][NextScenario]_vars

\* ten records, one per new key, all of them written while page 1 was the
\* last page requested
TenFromPageOne ==
    /\ Len(writeLog) = 10
    /\ run.totalWritten = 10
    /\ {writeLog[i].key : i \in 1..Len(writeLog)} = ScenarioNewKeys
    /\ \A i \in 1..Len(writeLog) : writeLog[i].page = 1

\* C9 (as amended): in the scenario the run writes exactly 10 new records from
\* page 1, requests 2 pages and ends in Completed; its page counter, which is
\* advanced only when a response brings a new cursor, stands at 1.
C9_Scenario ==
    run.pc = "done" =>
        /\ TenFromPageOne
        /\ hist.fetches = 2
        /\ run.message = "success"
        /\ run.pageCount = 1

\* the scenario's run has ended
C9_Witness ==
    /\ run.pc = "done"
    /\ hist.fetches = 2
    /\ Len(writeLog) = 10

\* C9 as stated: ten records from page 1, 2 pages counted, Completed.
C9_Original ==
    run.pc = "done" =>
        /\ TenFromPageOne
        /\ run.message = "success"
        /\ run.pageCount = 2

\* ---------------------------------------------------------------------
\* Further properties of the persist call
\* ---------------------------------------------------------------------

\* the log entries of input record i
EntriesOf(i) == {j \in 1..Len(writeLog) : writeLog[j].index = i}

\* the records put back form the back of the pending queue
RequeuedAtBack ==
    \A a, b \in 1..Len(p.remaining) :
        (a < b /\ p.remaining[a] \in p.requeued) => p.remaining[b] \in p.requeued

BackfillTarget(i) == p.recordIdsByIndex[i]

\* everything the datastore holds in the row belongs to input record i
RowHoldsOnly(row, i) ==
    /\ \A c \in cells : c[1] = row => c[2] = p.records[i]
    /\ \A j \in 1..Len(writeLog) : writeLog[j].row = row => writeLog[j].index = i

NextPlain ==
    \/ StartPlain
    \/ SetupReturns
    \/ ScanKeysReturns
    \/ ScanEmptyReturns
    \/ FetchReturns
    \/ BuildReturns
    \/ SetCellValueReturns
    \/ AddRecordsReturns
    \/ AddRecordReturns
    \/ DelayReturns
    \/ StopCollection

SpecPlain == Init /\ [][NextPlain]_vars

\* the log is in page order
PagesInOrder ==
    \A a, b \in 1..Len(writeLog) : a < b => writeLog[a].page <= writeLog[b].page

\* C13 (as amended): within one run every record of an earlier page is written
\* before any record of a later page, and the records of one page are written
\* in item order except for the records whose slot fill failed: those are
\* written, in item order among themselves, after the other records of the page.
C13_PageOrder ==
    /\ PagesInOrder
    /\ \A a, b \in 1..Len(writeLog) :
          (a < b /\ writeLog[a].page = writeLog[b].page) =>
              /\ writeLog[a].requeued => writeLog[b].requeued
              /\ writeLog[a].requeued = writeLog[b].requeued =>
                    writeLog[a].index < writeLog[b].index

\* the first item of a page failed its slot and was appended after the second
C13_Witness ==
    /\ Len(writeLog) = 2
    /\ writeLog[1].page = writeLog[2].page
    /\ writeLog[1].index = 2
    /\ writeLog[2].index = 1
    /\ writeLog[2].requeued
    /\ run.pc = "done"

\* C13 (as stated): the log is in page order and, within a page, in item order
C13_Original ==
    /\ PagesInOrder
    /\ \A a, b \in 1..Len(writeLog) :
          (a < b /\ writeLog[a].page = writeLog[b].page) =>
              writeLog[a].index < writeLog[b].index

\* records of two pages have been written
TwoPagesWritten ==
    \E a, b \in 1..Len(writeLog) : writeLog[a].page < writeLog[b].page

\* ---------------------------------------------------------------------
\* Quota availability and the start of runs
\* ---------------------------------------------------------------------

\* how a read of /api/quota can end: the request rejects (network error or
\* timeout), a 503 whose body says 'unavailable', any other non-OK status,
\* a 200 whose body says 'unavailable', a 200 whose body carries remaining and
\* quota, a 200 that carries them in its X-RateLimit headers only, and a 200
\* with neither
QuotaResponses ==
    {[type |-> t, remaining |-> -1] :
        t \in {"rejected", "notOkUnavailable", "notOkOther", "okUnavailable", "okOther"}}
    \cup {[type |-> t, remaining |-> n] : t \in {"okAvailable", "okHeaders"}, n \in 0..MaxQuota}

\* a read in which 'unavailable' and every failure end in the same state
AfterQuotaReadCollapsed(info, resp) ==
    IF resp.type \in {"notOkUnavailable", "okUnavailable", "notOkOther", "rejected"}
    THEN [remaining |-> -1, status |-> "unavailable"]
    ELSE IF resp.type \in {"okAvailable", "okHeaders"}
    THEN [remaining |-> resp.remaining, status |-> "available"]
    ELSE info

\* fetchQuotaInfo from the response on: the setQuotaInfo call of each branch
AfterQuotaRead(info, resp) ==
    IF resp.type \in {"notOkUnavailable", "okUnavailable"}
    THEN [remaining |-> -1, status |-> "unavailable"]
    ELSE IF resp.type \in {"notOkOther", "rejected"}
    THEN [remaining |-> -1, status |-> "degraded"]
    ELSE IF resp.type \in {"okAvailable", "okHeaders"}
    THEN [remaining |-> resp.remaining, status |-> "available"]
    ELSE info

\* fetchQuotaInfo is called (identity ready, every 10 minutes) and awaits
fetchQuotaInfo ==
    /\ hist.quotaRead # "pending"
    /\ hist' = [hist EXCEPT !.quotaRead = "pending"]
    /\ UNCHANGED <<run, p, emptyRecordIds, shouldStopRef, quotaInfo, hasAddRecords,
                   preRows, cells, writeLog, nextRowId, srcLeft, runs>>

\* the read of /api/quota returns
QuotaReadReturns ==
    /\ hist.quotaRead = "pending"
    /\ \E resp \in QuotaResponses :
          /\ quotaInfo' = AfterQuotaRead(quotaInfo, resp)
          /\ hist' = [hist EXCEPT !.quotaRead = resp.type]
    /\ UNCHANGED <<run, p, emptyRecordIds, shouldStopRef, hasAddRecords,
                   preRows, cells, writeLog, nextRowId, srcLeft, runs>>

InitQuota ==
    /\ run = IdleRun
    /\ p = IdleFrame
    /\ emptyRecordIds = <<>>
    /\ shouldStopRef = [kd \in Kinds |-> FALSE]
    /\ quotaInfo = NoQuota
    /\ hasAddRecords = TRUE
    /\ preRows = <<>>
    /\ cells = {}
    /\ writeLog = <<>>
    /\ nextRowId = 0
    /\ srcLeft = 0
    /\ hist = NoHistory
    /\ runs = IdleRuns

NextQuota ==
    \/ fetchQuotaInfo
    \/ QuotaReadReturns
    \/ StartKind
    \/ SetupDone
    \/ PagedFetchDone
    \/ AccountInfoFetchDone
    \/ AudioFetchDone
    \/ WriteDone

SpecQuota == InitQuota /\ [][NextQuota]_vars

\* the start button of the kind is not held back by a run in progress
ButtonFree(kd) ==
    /\ runs[kd].pc = "idle"
    /\ kd \in PagedKinds => \A other \in PagedKinds : runs[other].pc \in {"idle", "done"}

\* a run leaves Idle in this step
Starts(kd) == runs[kd].pc = "idle" /\ runs'[kd].pc # "idle"

\* a quota read that fails without the explicit signal yields Degraded, and
\* only the explicit signal yields Unavailable
ReadFailureDegrades ==
    /\ (hist.quotaRead = "pending" /\ hist'.quotaRead \in {"rejected", "notOkOther"})
          => quotaInfo'.status = "degraded"
    /\ (quotaInfo.status # "unavailable" /\ quotaInfo'.status = "unavailable")
          => hist'.quotaRead \in {"notOkUnavailable", "okUnavailable"}

EndedAfter(kinds) == run.pc = "done" /\ hist.lastResp \in kinds

\* C15: when a page fetch is aborted because the stop button was pressed, the
\* run leaves its loop at once (no further page request, no write) and ends
\* with the stopped report, never with the failure report.
C15_CancelAbortEndsStopped ==
    [][(run.pc = "fetch" /\ run.abortController = "aborted") =>
          /\ run'.pc = "done"
          /\ run'.message = "stopped"
          /\ hist'.lastResp = "cancelAbort"
          /\ hist'.fetches = hist.fetches
          /\ writeLog' = writeLog]_vars

\* a run stopped during its second page fetch has ended as stopped
C15_Witness ==
    /\ EndedAfter({"cancelAbort"})
    /\ hist.fetches = 2
    /\ hist.cancelAt = "fetch"
    /\ run.message = "stopped"

\* C16: a run whose page fetch failed for a reason other than a cancellation
\* (network error, non-OK status, request timeout) has ended with the failure
\* report.
C16_FetchFailureEndsFailed ==
    hist.lastResp \in {"networkError", "httpError", "timeout"} =>
        (run.pc = "done" /\ run.message = "failed")

\* C17: a run whose page response had no item list has ended, without a
\* further page request, with the failure report.
C17_MalformedEndsFailed ==
    hist.lastResp = "malformed" => (run.pc = "done" /\ run.message = "failed")

\* C18: a run whose pagination ended on a stalled cursor reports the stalled
\* cursor as its final outcome.
C18_StallReported ==
    (run.pc = "done" /\ hist.stallEnded /\ hist.lastResp = "ok"
        /\ ~hist.cancelRequested /\ ~hist.faults) => run.message = "stalled"

\* what ended the run: a 429, an error caught by the run's catch block, the
\* stop button, or the end of pagination
ActualCause ==
    IF hist.lastResp = "quota429" THEN "quota"
    ELSE IF run.message = "failed" THEN "error"
    ELSE IF hist.cancelRequested THEN "user"
    ELSE "natural"

\* what the final message of the run says ended it
ReportedCause ==
    IF run.message = "stopped" THEN "user"
    ELSE IF run.message = "failed" THEN "error"
    ELSE IF run.message = "success" THEN "natural"
    ELSE "other"

\* C19: the final report of a run names the cause that ended the run, with
\* user stop, quota exhaustion, natural completion and error told apart.
C19_ReportsCause ==
    run.pc = "done" => ReportedCause = ActualCause

\* apart from quota exhaustion the report and the cause agree
ReportsCauseButQuota ==
    (run.pc = "done" /\ hist.lastResp # "quota429") => ReportedCause = ActualCause

\* ---------------------------------------------------------------------
\* When a stopped run is reported as no longer running
\* ---------------------------------------------------------------------

\* the run of the kind has a source request or a datastore write in flight
InFlight(kd) == runs[kd].pc \in {"fetch", "write"}

\* C20: a run of any kind that was asked to stop is reported as no longer
\* running (its start button is offered again) only once its in-flight page
\* or item has finished: while a request or a write of the run is in flight
\* the run is reported as running.
C20_StoppedOnlyWhenSettled ==
    \A kd \in Kinds : InFlight(kd) => runs[kd].loading

\* the same for the kinds other than audio
PagedAndInfoSettle ==
    \A kd \in Kinds \ {"audio"} : InFlight(kd) => runs[kd].loading

\* a run that has ended makes no further request and no further write
NoWorkAfterEnd ==
    [][\A kd \in Kinds : runs[kd].pc = "done" =>
            /\ runs'[kd].pc = "done"
            /\ runs'[kd].fetches = runs[kd].fetches
            /\ runs'[kd].written = runs[kd].written]_vars

\* ---------------------------------------------------------------------
\* The empty-slot pool of a run
\* ---------------------------------------------------------------------

\* the slots the run has written into or handed to a persist call
SlotsTaken ==
    {c[1] : c \in cells}
    \cup {writeLog[j].row : j \in {a \in 1..Len(writeLog) : writeLog[a].via = "fill"}}
    \cup {p.idsToUse[i] : i \in 1..Len(p.idsToUse)}

\* t is what is left of s after some of its first elements were removed
IsSuffix(t, s) ==
    /\ Len(t) <= Len(s)
    /\ t = SubSeq(s, Len(s) - Len(t) + 1, Len(s))

\* a slot holds the data of one record only, and no two writes went to one row
OneRecordPerSlot ==
    /\ \A c1, c2 \in cells : c1[1] = c2[1] => c1[2] = c2[2]
    /\ \A a, b \in 1..Len(writeLog) : a # b => writeLog[a].row # writeLog[b].row

\* the pool keeps the order of the scan, and the slots taken are the ones
\* that came before what is left of it
TakenInPoolOrder ==
    /\ \A i, j \in 1..Len(emptyRecordIds) : i < j => emptyRecordIds[i] < emptyRecordIds[j]
    /\ \A i \in 1..Len(emptyRecordIds) : \A t \in SlotsTaken : t < emptyRecordIds[i]
    /\ \A a, b \in 1..Len(writeLog) :
          (a < b /\ writeLog[a].via = "fill" /\ writeLog[b].via = "fill")
              => writeLog[a].row < writeLog[b].row

\* C21: across the persist calls of one run the empty slots are taken in pool
\* order, a slot receives the data of at most one record, and a slot handed
\* to a persist call is removed from the pool and never comes back: after the
\* pre-scan the pool only loses elements at its front.
C21_SlotsConsumedOnce ==
    /\ [](OneRecordPerSlot /\ TakenInPoolOrder)
    /\ [][run.pc # "scanEmpty" => IsSuffix(emptyRecordIds', emptyRecordIds)]_vars

\* two pages of one run have each filled one slot
C21_Witness ==
    /\ Len(writeLog) = 2
    /\ writeLog[1].via = "fill"
    /\ writeLog[2].via = "fill"
    /\ writeLog[1].page < writeLog[2].page
    /\ emptyRecordIds = <<>>

\* ---------------------------------------------------------------------
\* Side-fetches: the cover download of the paged runs and the transcript
\* request of the audio run
\* ---------------------------------------------------------------------

\* a retry-after hint of the busy response, in seconds (0: none or invalid)
HintSecs == 3

TranscriptResponses ==
    {[type |-> t, retryAfter |-> 0] : t \in {"ok", "rejected", "quota429", "error"}}
    \cup {[type |-> "busy", retryAfter |-> h] : h \in {0, HintSecs}}

\* a paged run with cover download
StartCover == Start /\ run'.coverEnabled

\* handleAudioExtract up to its first await
StartAudio ==
    /\ run.pc = "idle"
    /\ ~quotaZero
    /\ ~quotaUnavailable
    /\ \E n \in 1..MaxItems, e \in 1..MaxEndpoints :
          run' = [IdleRun EXCEPT !.pc = "audioSetup", !.kind = "audio",
                                 !.isCollecting = TRUE, !.abortController = "live",
                                 !.audio.left = n, !.audio.endpoints = e]
    /\ shouldStopRef' = [shouldStopRef EXCEPT !["audio"] = FALSE]
    /\ hist' = [NoHistory EXCEPT !.issued = "audioSetup"]
    /\ UNCHANGED <<runs, p, emptyRecordIds, quotaInfo, hasAddRecords, preRows, cells,
                   writeLog, nextRowId, srcLeft>>

\* the awaits before the record loop are done (getActiveTable, ensureFields,
\* buildFieldWriters, getRecords)
AudioSetupReturns ==
    /\ run.pc = "audioSetup"
    /\ \E ok \in BOOLEAN :
          Resumed(IF ok THEN AudioLoopHead(Here) ELSE Failed(Here), ~ok)
    /\ UNCHANGED <<runs, shouldStopRef, quotaInfo, hasAddRecords, preRows, cells,
                   writeLog, nextRowId, srcLeft>>

\* the transcript request returns
TranscriptReturns ==
    /\ run.pc = "transcript"
    /\ \E resp \in TranscriptResponses :
          /\ run.abortController = "aborted" => resp.type = "rejected"
          /\ IF resp.type = "quota429"
             THEN /\ shouldStopRef' = Raise429(shouldStopRef)
                  /\ quotaInfo' = [quotaInfo EXCEPT !.remaining = 0, !.status = "available"]
             ELSE UNCHANGED <<shouldStopRef, quotaInfo>>
          /\ Resume(AfterTranscript(Here, resp))
    /\ UNCHANGED <<runs, hasAddRecords, preRows, cells, writeLog, nextRowId, srcLeft>>

TranscriptSleepReturns ==
    /\ run.pc = "transcriptSleep"
    /\ Resume(AfterTranscriptSleep(Here))
    /\ UNCHANGED <<runs, shouldStopRef, quotaInfo, hasAddRecords, preRows, cells,
                   writeLog, nextRowId, srcLeft>>

AudioWriteReturns ==
    /\ run.pc = "audioWrite"
    /\ \E ok \in BOOLEAN : Resumed(AfterAudioWrite(Here, ok), ~ok)
    /\ UNCHANGED <<runs, shouldStopRef, quotaInfo, hasAddRecords, preRows, cells,
                   writeLog, nextRowId, srcLeft>>

\* stopAudioExtraction, seen from the run
StopAudio ==
    /\ run.kind = "audio"
    /\ run.isCollecting
    /\ shouldStopRef' = [shouldStopRef EXCEPT !["audio"] = TRUE]
    /\ run' = [run EXCEPT !.isCollecting = FALSE, !.abortController = "aborted"]
    /\ hist' = [hist EXCEPT !.cancelRequested = TRUE, !.issued = "none",
                            !.cancelAt = IF @ = "none" THEN run.pc ELSE @]
    /\ UNCHANGED <<runs, p, emptyRecordIds, quotaInfo, hasAddRecords, preRows, cells,
                   writeLog, nextRowId, srcLeft>>

\* the stop button of a keyword or account run
StopPaged == StopCollection /\ run.kind \in PagedKinds

InitSide ==
    /\ run = IdleRun
    /\ p = IdleFrame
    /\ emptyRecordIds = <<>>
    /\ shouldStopRef = [kd \in Kinds |-> FALSE]
    /\ quotaInfo = NoQuota
    /\ hasAddRecords = TRUE
    /\ preRows = <<>>
    /\ cells = {}
    /\ writeLog = <<>>
    /\ nextRowId = 0
    /\ srcLeft = 1
    /\ hist = NoHistory
    /\ runs = IdleRuns

NextSide ==
    \/ StartCover
    \/ SetupReturns
    \/ ScanKeysReturns
    \/ ScanEmptyReturns
    \/ FetchReturns
    \/ CoverReturns
    \/ CoverSleepReturns
    \/ BuildReturns
    \/ AddRecordsReturns
    \/ DelayReturns
    \/ StopPaged
    \/ StartAudio
    \/ AudioSetupReturns
    \/ TranscriptReturns
    \/ TranscriptSleepReturns
    \/ AudioWriteReturns
    \/ StopAudio

SpecSide == InitSide /\ [][NextSide]_vars

\* the bounds on the attempts and the delays between them
SideFetchBounded ==
    /\ run.coverAttempt <= coverMaxAttempts
    /\ run.pc = "coverSleep" =>
          /\ run.coverAttempt < coverMaxAttempts
          /\ run.coverAttempt = 1 => run.sleepMs = 400
          /\ run.coverAttempt = 2 => run.sleepMs = 800
    /\ run.audio.attempt <= 2
    /\ \A e \in 1..MaxEndpoints : run.audio.requests[e] <= 2
    /\ run.pc = "transcriptSleep" =>
          /\ run.audio.attempt < 2
          /\ run.audio.last \in {"busy", "rejected"}
          /\ run.sleepMs \in {1200 * run.audio.attempt, HintSecs * 1000}

\* a side-fetch that returns does not end the run as failed; a cover download
\* that gave up leaves the record to be built without a file, and a transcript
\* request that gave up leaves '' to be written to the output field
SideFailureAbsorbed ==
    /\ run.pc \in {"cover", "coverSleep", "transcript", "transcriptSleep"}
          => run'.message # "failed"
    /\ (run.pc = "cover" /\ run.coverAttempt = coverMaxAttempts /\ run'.pc # "cover")
          => \/ run'.pc = "build" /\ run'.coverFile \in {"file", "undefined"}
             \/ run'.pc = "done" /\ run'.message = "stopped"
    /\ (run.pc = "transcript" /\ run'.pc = "audioWrite" /\ run'.audio.result = "error")
          => run'.audio.value = "empty"

\* C22: the cover download makes at most 3 attempts with delays of 400 and
\* 800 ms between them, the transcript request makes at most 2 attempts per
\* endpoint and waits for the server's retry-after hint after a busy answer;
\* when the attempts are used up the item goes on with an empty field and the
\* run does not end as failed because of it.
C22_SideFetchBounded ==
    /\ []SideFetchBounded
    /\ [][SideFailureAbsorbed]_vars
    /\ [][(run.pc = "audioWrite" /\ run.audio.result = "error" /\ run'.pc # "audioWrite"
           /\ ~hist'.faults) => run'.message # "failed"]_vars

\* an audio run went on to its second record after the transcript of the
\* first had failed on both endpoints, twice each, and wrote '' for it
C22_Witness ==
    /\ run.kind = "audio"
    /\ run.audio.outputs = <<[value |-> "empty",
                              requests |-> [e \in 1..MaxEndpoints |-> 2]]>>
    /\ run.pc = "transcriptSleep"
    /\ run.audio.last = "busy"
    /\ run.sleepMs = HintSecs * 1000
    /\ ~hist.cancelRequested

\* a cover download gave up after its third attempt and the record is built
CoverGaveUp ==
    /\ run.pc = "build"
    /\ run.coverFile = "undefined"
    /\ ~hist.cancelRequested

\* ---------------------------------------------------------------------
\* C23: the two pre-scans against an arbitrary datastore
\* ---------------------------------------------------------------------

scanPageSize == 200     \* bitableApi.ts: const pageSize = 200
PageStep == 50          \* page lengths the datastore answers with are its multiples

\* answers of table.getRecords({ pageSize, pageToken }): the number of records
\* of the page (at most pageSize) and the hasMore flag
PageLengths == {k * PageStep : k \in 0..(scanPageSize \div PageStep)}
GetRecordsAnswers == [records : PageLengths, hasMore : BOOLEAN]

IdleScan == [pc |-> "idle", kind |-> "none", maxScan |-> 0, scanned |-> 0,
             hasMore |-> FALSE, stopRef |-> FALSE]

\* getEmptyRecords: while (hasMore) { if (stopRef?.current) break; ... }
\* collectExistingKeys: while (hasMore && scanned < maxScan) { ... }
ScanLoopHead(f, stop) ==
    LET goOn == IF f.kind = "empty" THEN f.hasMore /\ ~(f.stopRef /\ stop)
                ELSE f.hasMore /\ f.scanned < f.maxScan
    IN [f EXCEPT !.pc = IF goOn THEN "getRecords" ELSE "returned"]

\* const { maxScan = 500 } = options; let hasMore = true; let scanned = 0
getEmptyRecords(stop) ==
    ScanLoopHead([IdleScan EXCEPT !.kind = "empty", !.maxScan = emptyMaxScan,
                                  !.hasMore = TRUE, !.stopRef = TRUE], stop)

\* const { maxScan = 5000 } = options; let hasMore = true; let scanned = 0
collectExistingKeys ==
    ScanLoopHead([IdleScan EXCEPT !.kind = "keys", !.maxScan = keysMaxScan,
                                  !.hasMore = TRUE], FALSE)

\* the scan testing the cap before the page is added
AfterGetRecordsCapped(f, result, stop) ==
    LET scanned == Min(f.maxScan, f.scanned + result.records) IN
    ScanLoopHead([f EXCEPT !.scanned = scanned,
                           !.hasMore = result.hasMore /\ scanned < f.maxScan], stop)

\* scanned += records.length; hasMore = result.hasMore && scanned < maxScan
AfterGetRecords(f, result, stop) ==
    LET scanned == f.scanned + result.records IN
    ScanLoopHead([f EXCEPT !.scanned = scanned,
                           !.hasMore = result.hasMore /\ scanned < f.maxScan], stop)

StartEmptyScan ==
    /\ run.pc = "idle"
    /\ run' = getEmptyRecords(shouldStopRef["keyword"])
    /\ UNCHANGED <<p, emptyRecordIds, shouldStopRef, quotaInfo, hasAddRecords,
                   preRows, cells, writeLog, nextRowId, srcLeft, hist, runs>>

StartKeyScan ==
    /\ run.pc = "idle"
    /\ run' = collectExistingKeys
    /\ UNCHANGED <<p, emptyRecordIds, shouldStopRef, quotaInfo, hasAddRecords,
                   preRows, cells, writeLog, nextRowId, srcLeft, hist, runs>>

GetRecordsReturns ==
    /\ run.pc = "getRecords"
    /\ \E result \in GetRecordsAnswers :
           run' = AfterGetRecords(run, result, shouldStopRef["keyword"])
    /\ UNCHANGED <<p, emptyRecordIds, shouldStopRef, quotaInfo, hasAddRecords,
                   preRows, cells, writeLog, nextRowId, srcLeft, hist, runs>>

\* the stop button while a pre-scan is waiting for its page
StopScan ==
    /\ run.pc = "getRecords"
    /\ ~shouldStopRef["keyword"]
    /\ shouldStopRef' = [shouldStopRef EXCEPT !["keyword"] = TRUE]
    /\ UNCHANGED <<run, p, emptyRecordIds, quotaInfo, hasAddRecords,
                   preRows, cells, writeLog, nextRowId, srcLeft, hist, runs>>

InitScan ==
    /\ run = IdleScan
    /\ p = IdleFrame
    /\ emptyRecordIds = <<>>
    /\ shouldStopRef = [kd \in Kinds |-> FALSE]
    /\ quotaInfo = NoQuota
    /\ hasAddRecords = TRUE
    /\ preRows = <<>>
    /\ cells = {}
    /\ writeLog = <<>>
    /\ nextRowId = 0
    /\ srcLeft = 0
    /\ hist = NoHistory
    /\ runs = IdleRuns

NextScan ==
    \/ StartEmptyScan
    \/ StartKeyScan
    \/ GetRecordsReturns
    \/ StopScan

SpecScan == InitScan /\ [][NextScan]_vars

\* C23: a pre-scan never examines more rows than its cap (500 rows for the
\* empty-slot scan, 5000 rows for the dedup-key scan), whatever pages the
\* datastore answers with
C23_ScanWithinCaps ==
    run.kind \in {"empty", "keys"} => run.scanned <= run.maxScan

\* what the loops do guarantee: the cap is passed by less than one page
ScanOvershootBelowPage ==
    run.kind \in {"empty", "keys"} => run.scanned < run.maxScan + scanPageSize

\* the empty-slot scan has returned after examining three full pages
EmptyScanPastCap ==
    /\ run.kind = "empty"
    /\ run.pc = "returned"
    /\ run.scanned = 3 * scanPageSize

\* ---------------------------------------------------------------------
\* C24: dedupeProducts
\* ---------------------------------------------------------------------

MaxProducts == 3        \* products of one list

\* A key string is modelled by its parts: the text before the last '#' and
\* the number after it; idx = -1 stands for a string that does not end in
\* '#<number>'.  Two key strings are equal exactly when their parts are.
Titles == {"", "t"}
NoProductId == [text |-> "", idx |-> -1]
ProductIds ==
    {NoProductId, [text |-> "a", idx |-> -1]}
    \cup [text : Titles, idx : 0..(MaxProducts - 1)]
CommerceProducts == [productId : ProductIds, title : Titles]

\* the key that ignores the position of a product without an id
ProductKeyByTitle(prod, idx) ==
    IF prod.productId # NoProductId THEN prod.productId
    ELSE [text |-> prod.title, idx |-> -1]

\* const key = p.productId || `${p.title || ''}#${idx}`   (idx from 0)
ProductKey(prod, idx) ==
    IF prod.productId # NoProductId THEN prod.productId
    ELSE [text |-> prod.title, idx |-> idx]

\* products.forEach((p, idx) => { if (!seen.has(key)) seen.set(key, p) });
\* Array.from(seen.values()): the first product of every key, in list order
RECURSIVE DedupeFrom(_, _, _, _)
DedupeFrom(products, i, seen, out) ==
    IF i > Len(products) THEN out
    ELSE LET key == ProductKey(products[i], i - 1) IN
         IF key \in seen THEN DedupeFrom(products, i + 1, seen, out)
         ELSE DedupeFrom(products, i + 1, seen \cup {key}, Append(out, products[i]))

dedupeProducts(products) == DedupeFrom(products, 1, {}, <<>>)

IdleDedupe == [pc |-> "list", products |-> <<>>, once |-> <<>>, twice |-> <<>>]

DedupeOnce ==
    /\ run.pc = "list"
    /\ run' = [run EXCEPT !.pc = "once", !.once = dedupeProducts(run.products)]
    /\ UNCHANGED <<p, emptyRecordIds, shouldStopRef, quotaInfo, hasAddRecords,
                   preRows, cells, writeLog, nextRowId, srcLeft, hist, runs>>

DedupeTwice ==
    /\ run.pc = "once"
    /\ run' = [run EXCEPT !.pc = "twice", !.twice = dedupeProducts(run.once)]
    /\ UNCHANGED <<p, emptyRecordIds, shouldStopRef, quotaInfo, hasAddRecords,
                   preRows, cells, writeLog, nextRowId, srcLeft, hist, runs>>

InitDedupe ==
    /\ \E products \in SeqsUpTo(CommerceProducts, MaxProducts) :
           run = [IdleDedupe EXCEPT !.products = products]
    /\ p = IdleFrame
    /\ emptyRecordIds = <<>>
    /\ shouldStopRef = [kd \in Kinds |-> FALSE]
    /\ quotaInfo = NoQuota
    /\ hasAddRecords = TRUE
    /\ preRows = <<>>
    /\ cells = {}
    /\ writeLog = <<>>
    /\ nextRowId = 0
    /\ srcLeft = 0
    /\ hist = NoHistory
    /\ runs = IdleRuns

NextDedupe ==
    \/ DedupeOnce
    \/ DedupeTwice

SpecDedupe == InitDedupe /\ [][NextDedupe]_vars

\* C24: deduplicating a deduplicated product list changes nothing:
\* dedupe(dedupe(L)) = dedupe(L) for every product list L
C24_DedupeIdempotent ==
    run.pc = "twice" => run.twice = run.once

\* an id can be spelled like the fallback key of another product
SpelledLikeFallback(products) ==
    \E i \in 1..Len(products) : products[i].productId.idx >= 0

\* the lists on which the second pass changes nothing: no id is spelled
\* '<title>#<number>'
IdempotentOnPlainIds ==
    run.pc = "twice" /\ ~SpelledLikeFallback(run.products) => run.twice = run.once

\* the second pass dropped a product the first pass had kept: [ {id 't#1'},
\* {id 't#1'}, {title 't'} ] gives two products, then one
SecondPassDrops ==
    /\ run.pc = "twice"
    /\ run.products = << [productId |-> [text |-> "t", idx |-> 1], title |-> ""],
                         [productId |-> [text |-> "t", idx |-> 1], title |-> ""],
                         [productId |-> NoProductId, title |-> "t"] >>
    /\ Len(run.once) = 2
    /\ Len(run.twice) = 1

\* ---------------------------------------------------------------------
\* C25: normalizeUrlKey on the text of a share link
\* ---------------------------------------------------------------------

\* A link text is modelled by its parts: whether it starts with a scheme
\* (new URL(raw) parses it) or not (new URL(raw) throws), host and path in
\* some letter case, the query string, the fragment, and blanks around it.
LinkBodies == {"tiktok.com/v/1", "TikTok.com/V/1", "tiktok.com/v/2"}
LinkQueries == {"", "a=1", "A=1"}
LinkFragments == {"", "top"}
LinkTexts == [absolute : BOOLEAN, body : LinkBodies, query : LinkQueries,
              fragment : LinkFragments, padded : BOOLEAN]

\* String.prototype.toLowerCase on the texts above
toLowerCase(text) ==
    CASE text = "TikTok.com/V/1" -> "tiktok.com/v/1"
      [] text = "A=1" -> "a=1"
      [] OTHER -> text

\* the fallback dropping query and fragment as the parsed branch does
normalizeUrlKeyTextStripped(raw) ==
    [absolute |-> raw.absolute, body |-> toLowerCase(raw.body),
     query |-> "", fragment |-> "", padded |-> FALSE]

\* try { url = new URL(raw.trim());
\*       return `${url.protocol}//${url.host}${url.pathname}`.toLowerCase() }
\* catch { return raw.trim().toLowerCase() }
normalizeUrlKeyText(raw) ==
    IF raw.absolute
    THEN [absolute |-> TRUE, body |-> toLowerCase(raw.body),
          query |-> "", fragment |-> "", padded |-> FALSE]
    ELSE [absolute |-> FALSE, body |-> toLowerCase(raw.body),
          query |-> toLowerCase(raw.query),
          fragment |-> toLowerCase(raw.fragment),
          padded |-> FALSE]

IdleLinks == [pc |-> "links", a |-> <<>>, b |-> <<>>, keyA |-> <<>>, keyB |-> <<>>]

NormalizeBoth ==
    /\ run.pc = "links"
    /\ run' = [run EXCEPT !.pc = "keys",
                          !.keyA = normalizeUrlKeyText(run.a),
                          !.keyB = normalizeUrlKeyText(run.b)]
    /\ UNCHANGED <<p, emptyRecordIds, shouldStopRef, quotaInfo, hasAddRecords,
                   preRows, cells, writeLog, nextRowId, srcLeft, hist, runs>>

InitLinks ==
    /\ \E a \in LinkTexts, b \in LinkTexts :
           run = [IdleLinks EXCEPT !.a = a, !.b = b]
    /\ p = IdleFrame
    /\ emptyRecordIds = <<>>
    /\ shouldStopRef = [kd \in Kinds |-> FALSE]
    /\ quotaInfo = NoQuota
    /\ hasAddRecords = TRUE
    /\ preRows = <<>>
    /\ cells = {}
    /\ writeLog = <<>>
    /\ nextRowId = 0
    /\ srcLeft = 0
    /\ hist = NoHistory
    /\ runs = IdleRuns

NextLinks == NormalizeBoth

SpecLinks == InitLinks /\ [][NextLinks]_vars

\* two link texts equal up to query string, fragment and letter case
EqualUpToQueryAndCase(a, b) ==
    /\ a.absolute = b.absolute
    /\ a.padded = b.padded
    /\ toLowerCase(a.body) = toLowerCase(b.body)

\* C25: two share links that are equal up to query string, fragment and
\* letter case get the same dedup key, whether or not they parse as
\* absolute URLs
C25_SameKey ==
    run.pc = "keys" /\ EqualUpToQueryAndCase(run.a, run.b) => run.keyA = run.keyB

\* the part that holds: links that parse as absolute URLs
SameKeyWhenAbsolute ==
    run.pc = "keys" /\ EqualUpToQueryAndCase(run.a, run.b) /\ run.a.absolute
        => run.keyA = run.keyB

\* two scheme-less links that differ in the query string only keep it in
\* their keys
FallbackKeepsQuery ==
    /\ run.pc = "keys"
    /\ ~run.a.absolute /\ ~run.b.absolute
    /\ run.a.body = run.b.body /\ run.a.fragment = run.b.fragment
    /\ run.a.query = "" /\ run.b.query = "a=1"
    /\ run.keyA # run.keyB

\* ---------------------------------------------------------------------
\* C26: the run's seen-key set
\* ---------------------------------------------------------------------

\* the keys the dedup pre-scan can find in the table
SeedKeys == {preRows[i] : i \in {j \in 1..Len(preRows) : preRows[j] > 0}}

\* the keys of which the run has written a record, or at least one field
WrittenKeys ==
    {writeLog[i].key : i \in 1..Len(writeLog)} \cup {cell[2] : cell \in cells}

\* C26: a key is in the seen-key set of a run only if the pre-scan found it
\* or the run has written a record with that key; an item that was skipped,
\* cancelled or not written after its key was computed is not marked as seen
C26_SeenOnlyIfWritten ==
    run.pc = "done" => run.existingLinks \subseteq (SeedKeys \cup WrittenKeys)

\* the part that holds: the set never shrinks while the run goes on
SeenNeverShrinks ==
    [][run.pc # "idle" => run.existingLinks \subseteq run'.existingLinks]_vars

\* a cancelled run ends with a key in the set that is in no row of the table
SeenButNeverWritten ==
    /\ run.pc = "done"
    /\ run.message = "stopped"
    /\ \E key \in run.existingLinks : key \notin (SeedKeys \cup WrittenKeys)
    /\ ~hist.faults

\* ---------------------------------------------------------------------
\* C27, C28: audio runs one after the other.  Every call of
\* handleAudioExtract has its own locals and its own audioSignal; the stop
\* flag (audioShouldStopRef), audioAbortControllerRef and audioLoading are
\* shared.  Column mode, output to the current table; `run` holds the
\* shared state, `runs` the locals of each call, `cells` the output field.
\* ---------------------------------------------------------------------

MaxAudioRuns == 2       \* calls of handleAudioExtract
NumAudioRecords == 2    \* records of the table the runs go through

AudioRunIds == 1..MaxAudioRuns

IdleAudioRun ==
    [pc |-> "idle",
     audioSignal |-> "none",     \* "none", "live" or "aborted"
     index |-> 0,                \* the record processRecord is at
     message |-> "none",
     cancelled |-> FALSE]        \* (history) stop was pressed while the call was active

AudioShared == [audioLoading |-> FALSE, audioAbortController |-> 0]

AudioActive(r) == r.pc \notin {"idle", "done"}

\* setAudioLoading(true); audioShouldStopRef.current = false;
\* audioAbortControllerRef.current = new AbortController(); audioSignal = its signal
StartAudioRun(r) ==
    [r EXCEPT !.pc = "setup", !.audioSignal = "live"]

\* the lines after the loop, and the finally block
AudioFinal(r, stop) ==
    [r EXCEPT !.pc = "done", !.message = IF stop THEN "stopped" ELSE "success"]

\* for (i...; i < currentRecords.length && !stop; ...) processRecord(record):
\* if (stop) return; await getCellValue(input)
\* then hasMore = records.hasMore (false) and the while loop ends
NextAudioRecord(r, stop) ==
    IF r.index < NumAudioRecords /\ ~stop
    THEN [r EXCEPT !.index = @ + 1, !.pc = "getCell"]
    ELSE AudioFinal(r, stop)

\* while (!stop && hasMore) { records = await getRecords(...) }
AudioWhileHead(r, stop) ==
    IF stop THEN AudioFinal(r, stop) ELSE [r EXCEPT !.pc = "getRecords"]

\* outputValue = await getCellValue(output): a filled output is skipped,
\* an empty one gets the placeholder
AfterGetOutput(r, value, stop) ==
    IF value # "" THEN NextAudioRecord(r, stop)
    ELSE [r EXCEPT !.pc = "placeholder"]

\* fetchAudioTranscript: if (stop || audioSignal.aborted) return aborted;
\* then processRecord: if (stop || aborted) { await setCellValue('') }
AfterPlaceholder(r, stop) ==
    IF stop \/ r.audioSignal = "aborted" THEN [r EXCEPT !.pc = "clear"]
    ELSE [r EXCEPT !.pc = "fetch"]

\* the request has settled: rejected on an aborted signal, otherwise a
\* transcript or an error answer
AfterAudioFetch(r, ok, stop) ==
    IF stop \/ r.audioSignal = "aborted" \/ ~ok THEN [r EXCEPT !.pc = "clear"]
    ELSE [r EXCEPT !.pc = "writeText"]

StartAudioCall ==
    /\ ~run.audioLoading
    /\ \E i \in AudioRunIds :
          /\ runs[i].pc = "idle"
          /\ \A j \in AudioRunIds : j < i => runs[j].pc # "idle"
          /\ runs' = [runs EXCEPT ![i] = StartAudioRun(@)]
          /\ run' = [audioLoading |-> TRUE, audioAbortController |-> i]
    /\ shouldStopRef' = [shouldStopRef EXCEPT !["audio"] = FALSE]
    /\ UNCHANGED <<p, emptyRecordIds, quotaInfo, hasAddRecords, preRows, cells,
                   writeLog, nextRowId, srcLeft, hist>>

\* finally { audioAbortControllerRef.current = null; setAudioLoading(false) }
AudioSharedAfter(r) ==
    IF r.pc = "done" THEN [audioLoading |-> FALSE, audioAbortController |-> 0]
    ELSE run

\* the call i goes on to r; a write it was waiting for has stored value
AudioResumes(i, r, stored) ==
    /\ runs' = [runs EXCEPT ![i] = r]
    /\ run' = AudioSharedAfter(r)
    /\ cells' = IF stored = "keep" THEN cells
                ELSE [cells EXCEPT ![runs[i].index] = stored]
    /\ writeLog' = IF stored = "keep" THEN writeLog
                   ELSE Append(writeLog, [by |-> i, record |-> runs[i].index,
                                          value |-> stored])
    /\ UNCHANGED <<p, emptyRecordIds, shouldStopRef, quotaInfo, hasAddRecords,
                   preRows, nextRowId, srcLeft, hist>>

\* getActiveTable, ensureFields, buildFieldWriters have returned
AudioCallSetupReturns ==
    \E i \in AudioRunIds :
       /\ runs[i].pc = "setup"
       /\ AudioResumes(i, AudioWhileHead(runs[i], shouldStopRef["audio"]), "keep")

AudioGetRecordsReturns ==
    \E i \in AudioRunIds :
       /\ runs[i].pc = "getRecords"
       /\ AudioResumes(i, NextAudioRecord(runs[i], shouldStopRef["audio"]), "keep")

\* getCellValue(input) has returned; await getCellValue(output)
AudioGetCellReturns ==
    \E i \in AudioRunIds :
       /\ runs[i].pc = "getCell"
       /\ AudioResumes(i, [runs[i] EXCEPT !.pc = "getOutput"], "keep")

AudioGetOutputReturns ==
    \E i \in AudioRunIds :
       /\ runs[i].pc = "getOutput"
       /\ AudioResumes(i, AfterGetOutput(runs[i], cells[runs[i].index],
                                         shouldStopRef["audio"]), "keep")

\* setCellValue(output, '获取文案中..') has returned
AudioPlaceholderReturns ==
    \E i \in AudioRunIds :
       /\ runs[i].pc = "placeholder"
       /\ AudioResumes(i, AfterPlaceholder(runs[i], shouldStopRef["audio"]),
                       "placeholder")

AudioFetchReturns ==
    \E i \in AudioRunIds, ok \in BOOLEAN :
       /\ runs[i].pc = "fetch"
       /\ AudioResumes(i, AfterAudioFetch(runs[i], ok, shouldStopRef["audio"]), "keep")

\* setCellValue(output, '') has returned
AudioClearReturns ==
    \E i \in AudioRunIds :
       /\ runs[i].pc = "clear"
       /\ AudioResumes(i, NextAudioRecord(runs[i], shouldStopRef["audio"]), "")

\* setCellValue(output, transcript) has returned
AudioWriteTextReturns ==
    \E i \in AudioRunIds :
       /\ runs[i].pc = "writeText"
       /\ AudioResumes(i, NextAudioRecord(runs[i], shouldStopRef["audio"]), "text")

\* stopAudioExtraction (the stop button is shown while audioLoading)
StopAudioCall ==
    /\ run.audioLoading
    /\ shouldStopRef' = [shouldStopRef EXCEPT !["audio"] = TRUE]
    /\ runs' = [i \in AudioRunIds |->
                  [runs[i] EXCEPT
                     !.audioSignal = IF i = run.audioAbortController
                                     THEN "aborted" ELSE @,
                     !.cancelled = @ \/ AudioActive(runs[i])]]
    /\ run' = [audioLoading |-> FALSE, audioAbortController |-> 0]
    /\ UNCHANGED <<p, emptyRecordIds, quotaInfo, hasAddRecords, preRows, cells,
                   writeLog, nextRowId, srcLeft, hist>>

InitAudioCalls ==
    /\ run = AudioShared
    /\ runs = [i \in AudioRunIds |-> IdleAudioRun]
    /\ p = IdleFrame
    /\ emptyRecordIds = <<>>
    /\ shouldStopRef = [kd \in Kinds |-> FALSE]
    /\ quotaInfo = NoQuota
    /\ hasAddRecords = TRUE
    /\ preRows = <<>>
    /\ cells = [rec \in 1..NumAudioRecords |-> ""]
    /\ writeLog = <<>>
    /\ nextRowId = 0
    /\ srcLeft = 0
    /\ hist = NoHistory

NextAudioCalls ==
    \/ StartAudioCall
    \/ AudioCallSetupReturns
    \/ AudioGetRecordsReturns
    \/ AudioGetCellReturns
    \/ AudioGetOutputReturns
    \/ AudioPlaceholderReturns
    \/ AudioFetchReturns
    \/ AudioClearReturns
    \/ AudioWriteTextReturns
    \/ StopAudioCall

SpecAudioCalls == InitAudioCalls /\ [][NextAudioCalls]_vars

\* the call i turns to a further record in this step
TurnsToRecord(i) == runs'[i].index > runs[i].index

\* C27: once cancellation has been requested for an audio run, that run turns
\* to no further record, also when a new audio run is started before the
\* cancelled one has left its loop
C27_CancelledRunStaysStopped ==
    [][\A i \in AudioRunIds : runs[i].cancelled => ~TurnsToRecord(i)]_vars

\* the part that holds: as long as no new run is started, a cancelled run
\* turns to no further record
StaysStoppedWithoutRestart ==
    [][\A i \in AudioRunIds :
          runs[i].cancelled /\ shouldStopRef["audio"] => ~TurnsToRecord(i)]_vars

\* a cancelled run and the run started after it are both inside their loops,
\* and the cancelled one is writing the placeholder into a further record
TwoRunsProcessing ==
    /\ runs[1].cancelled /\ runs[1].pc = "placeholder" /\ runs[1].index = 2
    /\ ~runs[2].cancelled /\ runs[2].pc \in {"getCell", "getOutput", "fetch"}

\* the call i leaves through its finally block in this step
AudioCallEnds(i) == runs[i].pc # "done" /\ runs'[i].pc = "done"

\* C28: the cleanup of a terminating run releases only its own controller
\* and clears only its own running indicator: while another run is active
\* and holds the controller, the controller and audioLoading stay as they are
C28_CleanupIsOwn ==
    [][\A i \in AudioRunIds :
          AudioCallEnds(i)
          /\ run.audioAbortController \in AudioRunIds \ {i}
          => run' = run]_vars

\* the part that holds: a run that is alone leaves the shared state released
CleanupReleases ==
    [][\A i \in AudioRunIds :
          AudioCallEnds(i) => ~run'.audioLoading /\ run'.audioAbortController = 0]_vars

\* a run is active and was never cancelled, and the stop button is gone:
\* audioLoading is false and the controller reference is null
ActiveRunWithoutStop ==
    /\ AudioActive(runs[2])
    /\ ~runs[2].cancelled
    /\ runs[1].pc = "done"
    /\ ~run.audioLoading
    /\ run.audioAbortController = 0

\* ---------------------------------------------------------------------
\* C29: termination of the pagination loop.  The run is suspended in one
\* call at a time; "each individual call returns" is weak fairness of the
\* resumption of the call the run is waiting for.  The stop button is
\* under no fairness: the user may never press it.
\* ---------------------------------------------------------------------

CallReturnsLong ==
    \/ SetupReturns
    \/ ScanKeysReturns
    \/ ScanEmptyReturns
    \/ FetchReturnsNoItems
    \/ DelayReturns

SpecLongLive == InitLong /\ [][NextLong]_vars /\ WF_vars(CallReturnsLong)

\* the terminal state of a run: the finally block has reset the indicators
RunEnded == run.pc = "done" /\ ~run.isCollecting /\ ~run.isStopping

\* C29: whatever pages the source answers with (has_more always true, empty
\* pages, repeated or cycling cursors), a started keyword or account run
\* reaches its terminal state with the collecting and stopping indicators
\* reset, provided every call returns; and it does so while the source could
\* still go on answering has_more = true
C29_RunTerminates ==
    /\ [](srcLeft > 0)
    /\ (run.pc # "idle") ~> RunEnded

\* the page ceiling has ended a run that nobody stopped, after the source
\* answered has_more = true to every request and stalled once at every cursor
C29_Witness ==
    /\ RunEnded
    /\ run.hasMore
    /\ run.pageCount = maxPages
    /\ hist.fetches = 2 * maxPages
    /\ ~hist.cancelRequested

\* ---------------------------------------------------------------------
\* C30: what the fill phase reports as filled
\* ---------------------------------------------------------------------

\* every field of the record at position index is in the row
AllFieldsIn(index, row) ==
    \A fld \in 1..NumFields : <<row, p.records[index], fld>> \in cells

\* C30: the filled-id list and the filled count of the fill phase hold a
\* record only if every one of its fields was written into the slot; a
\* record whose field writes a cancellation cut short is not counted
C30_FilledMeansAllFields ==
    /\ p.filledCount = Len(p.filledRecordIds)
    /\ \A k \in 1..Len(p.filledRecordIds) :
          AllFieldsIn(p.filledRecordIds[k][1], p.filledRecordIds[k][2])

\* the part that holds: as long as the stop flag is not set, every record
\* reported as filled has all its fields in its slot
FilledCompleteUnlessStopped ==
    ~shouldStopRef[run.kind] =>
        \A k \in 1..Len(p.filledRecordIds) :
            AllFieldsIn(p.filledRecordIds[k][1], p.filledRecordIds[k][2])

\* the call has returned a filled count of 1 for a record of which only the
\* first field is in the slot
CutShortCountedAsFilled ==
    /\ p.pc = "returned"
    /\ shouldStopRef[run.kind]
    /\ ~hist.faults
    /\ p.filledCount = 1
    /\ Cardinality(cells) = 1

====
